---------------------------- MODULE Spec2Model ----------------------------
(***************************************************************************)
(* Keyword extraction and weighted matching engine of resumeradar          *)
(* (backend/keyword_engine.py): the keyword taxonomy, the extractor        *)
(* extract_keywords_from_text with its matcher _keyword_in_text, and the   *)
(* scorer calculate_match.                                                 *)
(*                                                                         *)
(* Representation.  A Python str is a sequence of one-character strings    *)
(* (<<"a","w","s">> is "aws").  A score, which the code rounds to one      *)
(* decimal, is an integer number of tenths (667 is 66.7).  The arithmetic  *)
(* in between is Python float arithmetic, IEEE-754 binary64, modelled      *)
(* exactly: a double is [m |-> mantissa, e |-> exponent], of value         *)
(* m * 2^e, with m a natural number of exactly 53 bits held as a           *)
(* little-endian sequence of 15-bit limbs.                                 *)
(***************************************************************************)
EXTENDS Integers, Sequences, FiniteSets, TLC

(***************************************************************************)
(* Characters                                                              *)
(***************************************************************************)

\* The characters of the model's strings, in code point order: Python
\* compares str values (sorted) code point by code point.  "U+2022" is the
\* one character that bullet is, the model's character outside ASCII.
CodePointOrder ==
    <<"\t", "\n", " ", "#", "&", "(", ")", "+", ",", "-", ".", "/",
      "0", "1", "2", "3", "4", "5", "6", "7", "8", "9", "@",
      "A", "B", "C", "D", "E", "F", "G", "H", "I", "J", "K", "L", "M",
      "N", "O", "P", "Q", "R", "S", "T", "U", "V", "W", "X", "Y", "Z", "[", "]", "_",
      "a", "b", "c", "d", "e", "f", "g", "h", "i", "j", "k", "l", "m",
      "n", "o", "p", "q", "r", "s", "t", "u", "v", "w", "x", "y", "z", "|",
      "U+2022">>

Char == {CodePointOrder[i] : i \in DOMAIN CodePointOrder}

\* ord(c), up to an order-preserving renumbering.
CodePoint == [c \in Char |-> CHOOSE i \in DOMAIN CodePointOrder : CodePointOrder[i] = c]

Ord(c) == CodePoint[c]

UpperCase == <<"A", "B", "C", "D", "E", "F", "G", "H", "I", "J", "K", "L", "M",
               "N", "O", "P", "Q", "R", "S", "T", "U", "V", "W", "X", "Y", "Z">>
LowerCase == <<"a", "b", "c", "d", "e", "f", "g", "h", "i", "j", "k", "l", "m",
               "n", "o", "p", "q", "r", "s", "t", "u", "v", "w", "x", "y", "z">>
Digit == {"0", "1", "2", "3", "4", "5", "6", "7", "8", "9"}

\* str.lower() on one character.
ToLower ==
    [c \in Char |->
        IF \E i \in DOMAIN UpperCase : UpperCase[i] = c
        THEN LowerCase[CHOOSE i \in DOMAIN UpperCase : UpperCase[i] = c]
        ELSE c]

LowerChar(c) == ToLower[c]

\* str.lower()
lower(text) == [i \in DOMAIN text |-> LowerChar(text[i])]

\* The regular expression class \w.
WordChar ==
    {LowerCase[i] : i \in DOMAIN LowerCase} \cup {UpperCase[i] : i \in DOMAIN UpperCase}
        \cup Digit \cup {"_"}

IsWordChar(c) == c \in WordChar

\* Python's order on str: lexicographic by code point, a proper prefix first.
StrLess(a, b) ==
    \/ /\ Len(a) < Len(b)
       /\ \A i \in DOMAIN a : a[i] = b[i]
    \/ \E i \in DOMAIN a \cap DOMAIN b :
          /\ Ord(a[i]) < Ord(b[i])
          /\ \A j \in 1..(i - 1) : a[j] = b[j]

\* sorted(s) of a set of str: its i-th element has i - 1 elements before it.
sorted(s) ==
    LET before == [x \in s |-> Cardinality({y \in s : StrLess(y, x)})]
    IN  [i \in 1..Cardinality(s) |-> CHOOSE x \in s : before[x] = i - 1]

(***************************************************************************)
(* Keyword taxonomy (keyword_engine.py, lines 16-117)                      *)
(***************************************************************************)

TECHNICAL_SKILLS == {
    <<"a","w","s">>, <<"a","z","u","r","e">>, <<"g","c","p">>,
    <<"g","o","o","g","l","e"," ","c","l","o","u","d">>,
    <<"a","m","a","z","o","n"," ","w","e","b"," ","s","e","r","v","i","c","e","s">>,
    <<"c","l","o","u","d"," ","c","o","m","p","u","t","i","n","g">>, <<"e","c","2">>, <<"s","3">>,
    <<"l","a","m","b","d","a">>, <<"r","d","s">>, <<"v","p","c">>, <<"i","a","m">>,
    <<"c","l","o","u","d","f","o","r","m","a","t","i","o","n">>,
    <<"c","l","o","u","d","w","a","t","c","h">>, <<"t","e","r","r","a","f","o","r","m">>,
    <<"a","n","s","i","b","l","e">>, <<"p","u","p","p","e","t">>, <<"c","h","e","f">>,
    <<"i","n","f","r","a","s","t","r","u","c","t","u","r","e"," ","a","s"," ","c","o","d","e">>,
    <<"i","a","c">>, <<"d","o","c","k","e","r">>, <<"k","u","b","e","r","n","e","t","e","s">>,
    <<"k","8","s">>, <<"c","o","n","t","a","i","n","e","r","s">>, <<"e","c","s">>, <<"e","k","s">>,
    <<"f","a","r","g","a","t","e">>, <<"o","p","e","n","s","h","i","f","t">>, <<"h","e","l","m">>,
    <<"c","o","n","t","a","i","n","e","r"," ","o","r","c","h","e","s","t","r","a","t","i","o","n">>,
    <<"c","i","/","c","d">>, <<"c","i","c","d">>, <<"j","e","n","k","i","n","s">>,
    <<"g","i","t","h","u","b"," ","a","c","t","i","o","n","s">>,
    <<"g","i","t","l","a","b"," ","c","i">>, <<"c","i","r","c","l","e","c","i">>,
    <<"d","e","v","o","p","s">>, <<"d","e","v","s","e","c","o","p","s">>,
    <<"c","o","n","t","i","n","u","o","u","s"," ","i","n","t","e","g","r","a","t","i","o","n">>,
    <<"c","o","n","t","i","n","u","o","u","s"," ","d","e","l","i","v","e","r","y">>,
    <<"c","o","n","t","i","n","u","o","u","s"," ","d","e","p","l","o","y","m","e","n","t">>,
    <<"a","r","g","o","c","d">>, <<"s","p","i","n","n","a","k","e","r">>,
    <<"p","y","t","h","o","n">>, <<"j","a","v","a","s","c","r","i","p","t">>,
    <<"t","y","p","e","s","c","r","i","p","t">>, <<"j","a","v","a">>, <<"c","#">>, <<"c","+","+">>,
    <<"g","o">>, <<"g","o","l","a","n","g">>, <<"r","u","s","t">>, <<"r","u","b","y">>,
    <<"p","h","p">>, <<"s","w","i","f","t">>, <<"k","o","t","l","i","n">>, <<"s","c","a","l","a">>,
    <<"r">>, <<"m","a","t","l","a","b">>, <<"b","a","s","h">>,
    <<"s","h","e","l","l"," ","s","c","r","i","p","t","i","n","g">>,
    <<"p","o","w","e","r","s","h","e","l","l">>, <<"r","e","a","c","t">>,
    <<"r","e","a","c","t","j","s">>, <<"r","e","a","c","t",".","j","s">>,
    <<"a","n","g","u","l","a","r">>, <<"v","u","e">>, <<"v","u","e","j","s">>,
    <<"v","u","e",".","j","s">>, <<"n","e","x","t",".","j","s">>, <<"n","e","x","t","j","s">>,
    <<"n","o","d","e",".","j","s">>, <<"n","o","d","e","j","s">>, <<"e","x","p","r","e","s","s">>,
    <<"h","t","m","l">>, <<"c","s","s">>, <<"t","a","i","l","w","i","n","d">>,
    <<"b","o","o","t","s","t","r","a","p">>, <<"s","a","s","s">>, <<"w","e","b","p","a","c","k">>,
    <<"v","i","t","e">>, <<"r","e","s","t">>, <<"r","e","s","t","f","u","l">>,
    <<"g","r","a","p","h","q","l">>, <<"a","p","i">>, <<"a","p","i","s">>,
    <<"m","i","c","r","o","s","e","r","v","i","c","e","s">>,
    <<"s","e","r","v","e","r","l","e","s","s">>, <<"f","l","a","s","k">>,
    <<"d","j","a","n","g","o">>, <<"s","p","r","i","n","g"," ","b","o","o","t">>,
    <<"f","a","s","t","a","p","i">>, <<"s","q","l">>, <<"n","o","s","q","l">>,
    <<"p","o","s","t","g","r","e","s","q","l">>, <<"m","y","s","q","l">>,
    <<"m","o","n","g","o","d","b">>, <<"d","y","n","a","m","o","d","b">>, <<"r","e","d","i","s">>,
    <<"e","l","a","s","t","i","c","s","e","a","r","c","h">>,
    <<"c","a","s","s","a","n","d","r","a">>, <<"o","r","a","c","l","e">>,
    <<"d","a","t","a","b","a","s","e">>, <<"d","a","t","a"," ","m","o","d","e","l","i","n","g">>,
    <<"e","t","l">>, <<"d","a","t","a"," ","p","i","p","e","l","i","n","e">>,
    <<"d","a","t","a"," ","w","a","r","e","h","o","u","s","e">>,
    <<"r","e","d","s","h","i","f","t">>, <<"b","i","g","q","u","e","r","y">>,
    <<"s","n","o","w","f","l","a","k","e">>, <<"a","p","a","c","h","e"," ","s","p","a","r","k">>,
    <<"k","a","f","k","a">>, <<"a","i","r","f","l","o","w">>,
    <<"m","a","c","h","i","n","e"," ","l","e","a","r","n","i","n","g">>,
    <<"d","e","e","p"," ","l","e","a","r","n","i","n","g">>,
    <<"a","r","t","i","f","i","c","i","a","l"," ","i","n","t","e","l","l","i","g","e","n","c","e">>,
    <<"a","i">>, <<"m","l">>, <<"n","l","p">>,
    <<"n","a","t","u","r","a","l"," ","l","a","n","g","u","a","g","e"," ","p","r","o","c","e","s","s","i","n","g">>,
    <<"c","o","m","p","u","t","e","r"," ","v","i","s","i","o","n">>,
    <<"t","e","n","s","o","r","f","l","o","w">>, <<"p","y","t","o","r","c","h">>,
    <<"s","c","i","k","i","t","-","l","e","a","r","n">>, <<"l","l","m">>,
    <<"l","a","r","g","e"," ","l","a","n","g","u","a","g","e"," ","m","o","d","e","l">>,
    <<"g","e","n","e","r","a","t","i","v","e"," ","a","i">>, <<"s","e","c","u","r","i","t","y">>,
    <<"c","y","b","e","r","s","e","c","u","r","i","t","y">>,
    <<"e","n","c","r","y","p","t","i","o","n">>, <<"o","a","u","t","h">>, <<"s","s","o">>,
    <<"i","d","e","n","t","i","t","y">>,
    <<"a","c","c","e","s","s"," ","m","a","n","a","g","e","m","e","n","t">>,
    <<"z","e","r","o"," ","t","r","u","s","t">>,
    <<"p","e","n","e","t","r","a","t","i","o","n"," ","t","e","s","t","i","n","g">>,
    <<"s","i","e","m">>, <<"c","o","m","p","l","i","a","n","c","e">>, <<"g","d","p","r">>,
    <<"h","i","p","a","a">>, <<"s","o","c","2">>, <<"s","o","c"," ","2">>,
    <<"m","o","n","i","t","o","r","i","n","g">>,
    <<"o","b","s","e","r","v","a","b","i","l","i","t","y">>, <<"l","o","g","g","i","n","g">>,
    <<"p","r","o","m","e","t","h","e","u","s">>, <<"g","r","a","f","a","n","a">>,
    <<"d","a","t","a","d","o","g">>, <<"s","p","l","u","n","k">>,
    <<"n","e","w"," ","r","e","l","i","c">>, <<"e","l","k"," ","s","t","a","c","k">>,
    <<"c","l","o","u","d","t","r","a","i","l">>, <<"n","e","t","w","o","r","k","i","n","g">>,
    <<"d","n","s">>, <<"t","c","p","/","i","p">>, <<"h","t","t","p">>, <<"h","t","t","p","s">>,
    <<"l","o","a","d"," ","b","a","l","a","n","c","i","n","g">>, <<"c","d","n">>,
    <<"c","l","o","u","d","f","r","o","n","t">>, <<"r","o","u","t","e"," ","5","3">>,
    <<"v","p","n">>, <<"f","i","r","e","w","a","l","l">>, <<"g","i","t">>,
    <<"g","i","t","h","u","b">>, <<"g","i","t","l","a","b">>,
    <<"b","i","t","b","u","c","k","e","t">>,
    <<"v","e","r","s","i","o","n"," ","c","o","n","t","r","o","l">>, <<"l","i","n","u","x">>,
    <<"w","i","n","d","o","w","s"," ","s","e","r","v","e","r">>, <<"u","n","i","x">>,
    <<"m","a","c","o","s">>, <<"a","g","i","l","e">>, <<"s","c","r","u","m">>,
    <<"k","a","n","b","a","n">>, <<"w","a","t","e","r","f","a","l","l">>, <<"s","d","l","c">>,
    <<"l","e","a","n">>, <<"s","p","r","i","n","t">>, <<"j","i","r","a">>,
    <<"c","o","n","f","l","u","e","n","c","e">>, <<"t","e","s","t","i","n","g">>,
    <<"u","n","i","t"," ","t","e","s","t","i","n","g">>,
    <<"i","n","t","e","g","r","a","t","i","o","n"," ","t","e","s","t","i","n","g">>,
    <<"t","e","s","t"," ","a","u","t","o","m","a","t","i","o","n">>,
    <<"s","e","l","e","n","i","u","m">>, <<"c","y","p","r","e","s","s">>, <<"j","e","s","t">>,
    <<"p","y","t","e","s","t">>, <<"q","a">>,
    <<"q","u","a","l","i","t","y"," ","a","s","s","u","r","a","n","c","e">>
}

SOFT_SKILLS == {
    <<"c","o","m","m","u","n","i","c","a","t","i","o","n">>,
    <<"l","e","a","d","e","r","s","h","i","p">>, <<"t","e","a","m","w","o","r","k">>,
    <<"c","o","l","l","a","b","o","r","a","t","i","o","n">>,
    <<"p","r","o","b","l","e","m"," ","s","o","l","v","i","n","g">>,
    <<"p","r","o","b","l","e","m","-","s","o","l","v","i","n","g">>,
    <<"c","r","i","t","i","c","a","l"," ","t","h","i","n","k","i","n","g">>,
    <<"a","n","a","l","y","t","i","c","a","l">>,
    <<"a","t","t","e","n","t","i","o","n"," ","t","o"," ","d","e","t","a","i","l">>,
    <<"t","i","m","e"," ","m","a","n","a","g","e","m","e","n","t">>,
    <<"p","r","o","j","e","c","t"," ","m","a","n","a","g","e","m","e","n","t">>,
    <<"s","t","a","k","e","h","o","l","d","e","r"," ","m","a","n","a","g","e","m","e","n","t">>,
    <<"m","e","n","t","o","r","i","n","g">>, <<"c","o","a","c","h","i","n","g">>,
    <<"p","r","e","s","e","n","t","a","t","i","o","n">>,
    <<"p","u","b","l","i","c"," ","s","p","e","a","k","i","n","g">>,
    <<"n","e","g","o","t","i","a","t","i","o","n">>,
    <<"c","o","n","f","l","i","c","t"," ","r","e","s","o","l","u","t","i","o","n">>,
    <<"d","e","c","i","s","i","o","n"," ","m","a","k","i","n","g">>,
    <<"d","e","c","i","s","i","o","n","-","m","a","k","i","n","g">>,
    <<"a","d","a","p","t","a","b","i","l","i","t","y">>,
    <<"f","l","e","x","i","b","i","l","i","t","y">>, <<"c","r","e","a","t","i","v","i","t","y">>,
    <<"i","n","n","o","v","a","t","i","o","n">>,
    <<"s","t","r","a","t","e","g","i","c"," ","t","h","i","n","k","i","n","g">>,
    <<"s","t","r","a","t","e","g","i","c"," ","p","l","a","n","n","i","n","g">>,
    <<"c","u","s","t","o","m","e","r"," ","f","a","c","i","n","g">>,
    <<"c","r","o","s","s","-","f","u","n","c","t","i","o","n","a","l">>,
    <<"c","r","o","s","s"," ","f","u","n","c","t","i","o","n","a","l">>,
    <<"s","e","l","f","-","m","o","t","i","v","a","t","e","d">>,
    <<"s","e","l","f","-","s","t","a","r","t","e","r">>,
    <<"r","e","s","u","l","t","s","-","d","r","i","v","e","n">>,
    <<"r","e","s","u","l","t","s"," ","d","r","i","v","e","n">>,
    <<"d","e","t","a","i","l","-","o","r","i","e","n","t","e","d">>,
    <<"d","e","t","a","i","l"," ","o","r","i","e","n","t","e","d">>,
    <<"f","a","s","t","-","p","a","c","e","d">>,
    <<"m","u","l","t","i","t","a","s","k","i","n","g">>,
    <<"p","r","i","o","r","i","t","i","z","a","t","i","o","n">>,
    <<"o","r","g","a","n","i","z","a","t","i","o","n","a","l">>,
    <<"i","n","t","e","r","p","e","r","s","o","n","a","l">>,
    <<"w","r","i","t","t","e","n"," ","c","o","m","m","u","n","i","c","a","t","i","o","n">>,
    <<"v","e","r","b","a","l"," ","c","o","m","m","u","n","i","c","a","t","i","o","n">>,
    <<"e","m","o","t","i","o","n","a","l"," ","i","n","t","e","l","l","i","g","e","n","c","e">>,
    <<"r","e","l","a","t","i","o","n","s","h","i","p"," ","b","u","i","l","d","i","n","g">>
}

CERTIFICATIONS == {
    <<"a","w","s"," ","c","e","r","t","i","f","i","e","d">>,
    <<"s","o","l","u","t","i","o","n","s"," ","a","r","c","h","i","t","e","c","t">>,
    <<"c","l","o","u","d"," ","p","r","a","c","t","i","t","i","o","n","e","r">>,
    <<"d","e","v","e","l","o","p","e","r"," ","a","s","s","o","c","i","a","t","e">>,
    <<"s","y","s","o","p","s"," ","a","d","m","i","n","i","s","t","r","a","t","o","r">>,
    <<"d","e","v","o","p","s"," ","e","n","g","i","n","e","e","r">>,
    <<"d","a","t","a"," ","a","n","a","l","y","t","i","c","s">>,
    <<"d","a","t","a","b","a","s","e"," ","s","p","e","c","i","a","l","t","y">>,
    <<"s","e","c","u","r","i","t","y"," ","s","p","e","c","i","a","l","t","y">>,
    <<"m","a","c","h","i","n","e"," ","l","e","a","r","n","i","n","g"," ","s","p","e","c","i","a","l","t","y">>,
    <<"a","d","v","a","n","c","e","d"," ","n","e","t","w","o","r","k","i","n","g">>,
    <<"a","z","u","r","e"," ","c","e","r","t","i","f","i","e","d">>, <<"a","z","-","9","0","0">>,
    <<"a","z","-","1","0","4">>, <<"a","z","-","3","0","5">>, <<"a","z","-","4","0","0">>,
    <<"a","z","u","r","e"," ","f","u","n","d","a","m","e","n","t","a","l","s">>,
    <<"a","z","u","r","e"," ","a","d","m","i","n","i","s","t","r","a","t","o","r">>,
    <<"a","z","u","r","e"," ","s","o","l","u","t","i","o","n","s"," ","a","r","c","h","i","t","e","c","t">>,
    <<"g","o","o","g","l","e"," ","c","l","o","u","d"," ","c","e","r","t","i","f","i","e","d">>,
    <<"p","r","o","f","e","s","s","i","o","n","a","l"," ","c","l","o","u","d"," ","a","r","c","h","i","t","e","c","t">>,
    <<"a","s","s","o","c","i","a","t","e"," ","c","l","o","u","d"," ","e","n","g","i","n","e","e","r">>,
    <<"p","r","o","f","e","s","s","i","o","n","a","l"," ","d","a","t","a"," ","e","n","g","i","n","e","e","r">>,
    <<"p","m","p">>, <<"p","r","i","n","c","e","2">>, <<"i","t","i","l">>,
    <<"c","o","m","p","t","i","a">>, <<"c","i","s","s","p">>, <<"c","i","s","m">>,
    <<"c","i","s","a">>, <<"c","c","n","a">>, <<"c","c","n","p">>,
    <<"c","e","r","t","i","f","i","e","d"," ","k","u","b","e","r","n","e","t","e","s">>,
    <<"c","k","a">>, <<"c","k","a","d">>, <<"s","c","r","u","m"," ","m","a","s","t","e","r">>,
    <<"c","s","m">>, <<"s","a","f","e">>, <<"t","o","g","a","f">>
}

EDUCATION_KEYWORDS == {
    <<"b","a","c","h","e","l","o","r">>, <<"m","a","s","t","e","r">>, <<"m","b","a">>,
    <<"p","h","d">>, <<"d","o","c","t","o","r","a","t","e">>, <<"d","e","g","r","e","e">>,
    <<"c","o","m","p","u","t","e","r"," ","s","c","i","e","n","c","e">>,
    <<"i","n","f","o","r","m","a","t","i","o","n"," ","t","e","c","h","n","o","l","o","g","y">>,
    <<"e","n","g","i","n","e","e","r","i","n","g">>,
    <<"m","a","t","h","e","m","a","t","i","c","s">>, <<"s","t","a","t","i","s","t","i","c","s">>,
    <<"d","a","t","a"," ","s","c","i","e","n","c","e">>,
    <<"b","u","s","i","n","e","s","s"," ","a","d","m","i","n","i","s","t","r","a","t","i","o","n">>,
    <<"b","s","c">>, <<"m","s","c">>, <<"b",".","s",".">>, <<"m",".","s",".">>, <<"b",".","a",".">>,
    <<"m",".","a",".">>
}

ACTION_VERBS == {
    <<"l","e","d">>, <<"m","a","n","a","g","e","d">>, <<"d","e","v","e","l","o","p","e","d">>,
    <<"d","e","s","i","g","n","e","d">>, <<"i","m","p","l","e","m","e","n","t","e","d">>,
    <<"b","u","i","l","t">>, <<"c","r","e","a","t","e","d">>, <<"l","a","u","n","c","h","e","d">>,
    <<"d","e","l","i","v","e","r","e","d">>, <<"i","m","p","r","o","v","e","d">>,
    <<"o","p","t","i","m","i","z","e","d">>, <<"r","e","d","u","c","e","d">>,
    <<"i","n","c","r","e","a","s","e","d">>, <<"a","u","t","o","m","a","t","e","d">>,
    <<"m","i","g","r","a","t","e","d">>, <<"d","e","p","l","o","y","e","d">>,
    <<"a","r","c","h","i","t","e","c","t","e","d">>, <<"c","o","n","f","i","g","u","r","e","d">>,
    <<"e","s","t","a","b","l","i","s","h","e","d">>,
    <<"s","p","e","a","r","h","e","a","d","e","d">>,
    <<"o","r","c","h","e","s","t","r","a","t","e","d">>,
    <<"s","t","r","e","a","m","l","i","n","e","d">>,
    <<"t","r","a","n","s","f","o","r","m","e","d">>, <<"m","e","n","t","o","r","e","d">>,
    <<"c","o","o","r","d","i","n","a","t","e","d">>, <<"a","n","a","l","y","z","e","d">>,
    <<"e","v","a","l","u","a","t","e","d">>, <<"r","e","s","o","l","v","e","d">>,
    <<"m","a","i","n","t","a","i","n","e","d">>, <<"s","u","p","p","o","r","t","e","d">>,
    <<"c","o","l","l","a","b","o","r","a","t","e","d">>,
    <<"c","o","n","t","r","i","b","u","t","e","d">>
}

Categories == {"technical_skills", "soft_skills", "certifications", "education", "action_verbs"}

\* The order calculate_match visits the categories in (line 210), which is
\* also the insertion order of results["category_scores"].
CategoryOrder ==
    <<"technical_skills", "soft_skills", "certifications", "education", "action_verbs">>

\* Taxonomy with the soft skills listed among the action verbs too.
TaxonomyOverlapping(category) ==
    CASE category = "technical_skills" -> TECHNICAL_SKILLS
      [] category = "soft_skills"      -> SOFT_SKILLS
      [] category = "certifications"   -> CERTIFICATIONS
      [] category = "education"        -> EDUCATION_KEYWORDS
      [] category = "action_verbs"     -> ACTION_VERBS \cup SOFT_SKILLS

\* Taxonomy with every key scanned for the terms of all five sets.
WholeTaxonomy(category) ==
    TECHNICAL_SKILLS \cup SOFT_SKILLS \cup CERTIFICATIONS \cup EDUCATION_KEYWORDS
        \cup ACTION_VERBS

\* The taxonomy set extract_keywords_from_text scans for each key of `found`.
Taxonomy(category) ==
    CASE category = "technical_skills" -> TECHNICAL_SKILLS
      [] category = "soft_skills"      -> SOFT_SKILLS
      [] category = "certifications"   -> CERTIFICATIONS
      [] category = "education"        -> EDUCATION_KEYWORDS
      [] category = "action_verbs"     -> ACTION_VERBS

(***************************************************************************)
(* Keyword extractor (keyword_engine.py, lines 120-177)                    *)
(***************************************************************************)

\* Whether text[p] exists and is a word character.
WordAt(text, p) == p \in DOMAIN text /\ IsWordChar(text[p])

\* Boundary without the assertion: the keyword is searched as a substring.
AnyPosition(text, p) == TRUE

\* The regular expression assertion \b at the position before text[p]
\* (p = Len(text) + 1 is the end of the text).
Boundary(text, p) == WordAt(text, p - 1) # WordAt(text, p)

\* re.escape(literal) matched at text[p..], under re.IGNORECASE.
LiteralAt(literal, text, p) ==
    /\ p + Len(literal) - 1 <= Len(text)
    /\ \A k \in DOMAIN literal : LowerChar(text[p + k - 1]) = LowerChar(literal[k])

\* re.search(r'\b' + re.escape(keyword) + r'\b', text, re.IGNORECASE)
SearchWhole(keyword, text) ==
    \E p \in DOMAIN text :
        /\ Boundary(text, p)
        /\ LiteralAt(keyword, text, p)
        /\ Boundary(text, p + Len(keyword))

\* re.search(r'\b' + re.escape(stem) + r'\w*\b', text, re.IGNORECASE)
SearchStem(stem, text) ==
    \E p \in DOMAIN text :
        /\ Boundary(text, p)
        /\ LiteralAt(stem, text, p)
        /\ \E q \in (p + Len(stem))..(Len(text) + 1) :
              /\ \A k \in (p + Len(stem))..(q - 1) : IsWordChar(text[k])
              /\ Boundary(text, q)

\* str.rstrip(chars): drop the trailing characters that are in chars.
rstrip(s, chars) ==
    LET kept == {i \in DOMAIN s : s[i] \notin chars}
    IN  SubSeq(s, 1, IF kept = {} THEN 0 ELSE CHOOSE i \in kept : \A j \in kept : j <= i)

\* keyword.rstrip('esiond').rstrip('at').rstrip('ing')  (line 171)
Stem(keyword) ==
    rstrip(rstrip(rstrip(keyword, {"e", "s", "i", "o", "n", "d"}), {"a", "t"}),
           {"i", "n", "g"})

MinStemLen == 4

\* _keyword_in_text without the stem fallback of lines 171-175.
whole_keyword_in_text(keyword, text) == SearchWhole(keyword, text)

_keyword_in_text(keyword, text) ==
    \/ SearchWhole(keyword, text)
    \/ /\ Len(Stem(keyword)) >= MinStemLen
       /\ SearchStem(Stem(keyword), text)

\* The module-level keyword sets, as the module defines them.
TaxonomySets == [category \in Categories |-> Taxonomy(category)]

\* The body of extract_keywords_from_text, given the keyword sets it finds
\* in the module when it runs.
scan_keywords(sets, text) ==
    [category \in Categories |->
        {t \in sets[category] : _keyword_in_text(t, lower(text))}]

extract_keywords_from_text(text) == scan_keywords(TaxonomySets, text)

(***************************************************************************)
(* Python float arithmetic (IEEE-754 binary64, round to nearest, ties to   *)
(* even), as calculate_match uses it on lines 257-260, 282-286 and 291-293 *)
(***************************************************************************)

\* Natural numbers beyond 31 bits: little-endian sequences of limbs below
\* Base, without high zero limbs (<<>> is 0).
Base == 2^15

Limb(a, i) == IF i <= Len(a) THEN a[i] ELSE 0

RECURSIVE BTrim(_)
BTrim(a) ==
    IF a # <<>> /\ a[Len(a)] = 0 THEN BTrim(SubSeq(a, 1, Len(a) - 1)) ELSE a

BFromInt(n) == BTrim(<<n % Base, n \div Base>>)

BToInt(a) == Limb(a, 1) + Base * Limb(a, 2)

RECURSIVE BAddFrom(_, _, _, _)
BAddFrom(a, b, i, carry) ==
    IF i > Len(a) /\ i > Len(b)
    THEN IF carry = 0 THEN <<>> ELSE <<carry>>
    ELSE LET s == Limb(a, i) + Limb(b, i) + carry
         IN  <<s % Base>> \o BAddFrom(a, b, i + 1, s \div Base)

BAdd(a, b) == BAddFrom(a, b, 1, 0)

\* a - b, for a >= b
RECURSIVE BSubFrom(_, _, _, _)
BSubFrom(a, b, i, borrow) ==
    IF i > Len(a) THEN <<>>
    ELSE LET d == a[i] - Limb(b, i) - borrow
         IN  <<d % Base>> \o BSubFrom(a, b, i + 1, IF d < 0 THEN 1 ELSE 0)

BSub(a, b) == BTrim(BSubFrom(a, b, 1, 0))

\* a * k, for 0 <= k <= Base
RECURSIVE BMulSmallFrom(_, _, _, _)
BMulSmallFrom(a, k, i, carry) ==
    IF i > Len(a)
    THEN IF carry = 0 THEN <<>> ELSE <<carry>>
    ELSE LET p == a[i] * k + carry
         IN  <<p % Base>> \o BMulSmallFrom(a, k, i + 1, p \div Base)

BMulSmall(a, k) == BTrim(BMulSmallFrom(a, k, 1, 0))

\* a * Base^n
BShiftLimbs(a, n) == IF a = <<>> THEN <<>> ELSE [i \in 1..n |-> 0] \o a

RECURSIVE BMulFrom(_, _, _)
BMulFrom(a, b, j) ==
    IF j > Len(b) THEN <<>>
    ELSE BAdd(BShiftLimbs(BMulSmall(a, b[j]), j - 1), BMulFrom(a, b, j + 1))

BMul(a, b) == BMulFrom(a, b, 1)

\* floor(a / d), for 0 < d <= Base
RECURSIVE BDivSmallFrom(_, _, _, _)
BDivSmallFrom(a, d, i, r) ==
    IF i = 0 THEN <<>>
    ELSE LET cur == r * Base + a[i]
         IN  BDivSmallFrom(a, d, i - 1, cur % d) \o <<cur \div d>>

BDivSmall(a, d) == BTrim(BDivSmallFrom(a, d, Len(a), 0))

\* -1, 0 or 1 as a < b, a = b or a > b
RECURSIVE BCmpFrom(_, _, _)
BCmpFrom(a, b, i) ==
    IF i = 0 THEN 0
    ELSE IF a[i] # b[i] THEN (IF a[i] < b[i] THEN -1 ELSE 1)
    ELSE BCmpFrom(a, b, i - 1)

BCmp(a, b) ==
    IF Len(a) # Len(b) THEN (IF Len(a) < Len(b) THEN -1 ELSE 1)
    ELSE BCmpFrom(a, b, Len(a))

RECURSIVE IntBits(_)
IntBits(n) == IF n = 0 THEN 0 ELSE 1 + IntBits(n \div 2)

\* The number of bits of a
BBitLen(a) == IF a = <<>> THEN 0 ELSE 15 * (Len(a) - 1) + IntBits(a[Len(a)])

\* a * 2^n and floor(a / 2^n)
BShl(a, n) == BShiftLimbs(BMulSmall(a, 2^(n % 15)), n \div 15)
BShr(a, n) ==
    IF n \div 15 >= Len(a) THEN <<>>
    ELSE BDivSmall(SubSeq(a, n \div 15 + 1, Len(a)), 2^(n % 15))

\* How floor(a / 2^n) must be corrected to round a / 2^n to the nearest
\* integer, ties to even: 1 or 0.  `sticky` says that the exact value lies
\* strictly above a.
RoundUp(a, n, sticky) ==
    IF n = 0 THEN 0
    ELSE LET q    == BShr(a, n)
             rest == BSub(a, BShl(q, n))
             c    == BCmp(rest, BShl(<<1>>, n - 1))
         IN  IF c > 0 \/ (c = 0 /\ (sticky \/ Limb(q, 1) % 2 = 1)) THEN 1 ELSE 0

\* The precision of a Python float: 53 bits.
DoublePrecision == 53

DZero == [m |-> <<>>, e |-> 0]

\* The double nearest to n * 2^e (to a value just above it when `sticky`).
DRound(n, e, sticky) ==
    LET len == BBitLen(n)
    IN  IF n = <<>> THEN DZero
        ELSE IF len <= DoublePrecision
        THEN [m |-> BShl(n, DoublePrecision - len), e |-> e - (DoublePrecision - len)]
        ELSE LET s == len - DoublePrecision
                 r == BAdd(BShr(n, s), BFromInt(RoundUp(n, s, sticky)))
             IN  IF BBitLen(r) > DoublePrecision
                 THEN [m |-> BShr(r, 1), e |-> e + s + 1]
                 ELSE [m |-> r, e |-> e + s]

\* float(n) of an int 0 <= n < 2^30
DFromInt(n) == DRound(BFromInt(n), 0, FALSE)

\* x + y
DAdd(x, y) ==
    IF x.m = <<>> THEN y
    ELSE IF y.m = <<>> THEN x
    ELSE LET e0 == IF x.e < y.e THEN x.e ELSE y.e
         IN  DRound(BAdd(BShl(x.m, x.e - e0), BShl(y.m, y.e - e0)), e0, FALSE)

\* x * y
DMul(x, y) ==
    IF x.m = <<>> \/ y.m = <<>> THEN DZero
    ELSE DRound(BMul(x.m, y.m), x.e + y.e, FALSE)

\* One step of long division in base Base, for a divisor d whose top limb is
\* at least Base / 2 and r < d * Base: <<floor(r / d), r mod d>>.  The
\* quotient digit estimated from the top limbs is at most 2 too large.
BDivStep(r, d) ==
    LET top  == Limb(r, Len(d) + 1) * Base + Limb(r, Len(d))
        est  == top \div d[Len(d)]
        qhat == IF est < Base - 1 THEN est ELSE Base - 1
        q    == CHOOSE c \in {qhat - 2, qhat - 1, qhat} :
                    /\ c >= 0
                    /\ BCmp(BMulSmall(d, c), r) <= 0
                    /\ BCmp(BMulSmall(d, c + 1), r) > 0
    IN  <<q, BSub(r, BMulSmall(d, q))>>

\* The first k limbs of the fraction r / d, for r < d, as
\* <<floor(r * Base^k / d), remainder>>.
RECURSIVE BDivFrac(_, _, _)
BDivFrac(r, d, k) ==
    IF k = 0 THEN <<<<>>, r>>
    ELSE LET step == BDivStep(BShiftLimbs(r, 1), d)
             rest == BDivFrac(step[2], d, k - 1)
         IN  <<rest[1] \o <<step[1]>>, rest[2]>>

\* x / y, for y # 0: the quotient of the mantissas (below 2, both having 53
\* bits; scaled by 2^7 to fill four limbs) to 60 fractional bits, the
\* remainder deciding a tie, then rounded.
DDiv(x, y) ==
    IF x.m = <<>> THEN DZero
    ELSE LET xm == BShl(x.m, 60 - DoublePrecision)
             ym == BShl(y.m, 60 - DoublePrecision)
             ge == BCmp(xm, ym) >= 0
             qr == BDivFrac(IF ge THEN BSub(xm, ym) ELSE xm, ym, 4)
         IN  DRound(BTrim(qr[1] \o <<IF ge THEN 1 ELSE 0>>), x.e - y.e - 60,
                    qr[2] # <<>>)

\* a / b of two ints, 0 <= a < Base and 0 < b < Base: Python returns the
\* double nearest to the quotient.  The quotient is taken to 75 fractional
\* bits, so to more than 53 significant ones.
IntTrueDiv(a, b) ==
    LET n == BShl(BFromInt(a), 75)
        q == BDivSmall(n, b)
    IN  DRound(q, -75, BMulSmall(q, b) # n)

\* round(x, 1) in tenths, for 0 <= x < 2^20: Python rounds the exact value
\* of the double to one decimal, ties to even.
RoundTenths(x) ==
    IF x.m = <<>> THEN 0
    ELSE LET n == BMulSmall(x.m, 10)
         IN  IF x.e >= 0 THEN BToInt(BShl(n, x.e))
             ELSE BToInt(BShr(n, -x.e)) + RoundUp(n, -x.e, FALSE)

\* The float that a score of k tenths is: round(x, 1) returns the double
\* nearest to k / 10.
DTenths(k) == IntTrueDiv(k, 10)

(***************************************************************************)
(* Match scorer (keyword_engine.py, lines 180-298)                         *)
(***************************************************************************)

\* keywords[category]: KeyError for a category the mapping omits.
LookupStrict(keywords, category) ==
    IF category \in DOMAIN keywords
    THEN [value |-> keywords[category], raised |-> FALSE]
    ELSE [value |-> {}, raised |-> TRUE]

\* The outcome of keywords.get(category, set()) (lines 211-212): the value
\* it returns, and whether it raises KeyError; for a category the mapping
\* omits it returns the default.
Lookup(keywords, category) ==
    IF category \in DOMAIN keywords
    THEN [value |-> keywords[category], raised |-> FALSE]
    ELSE [value |-> {}, raised |-> FALSE]

\* dict.get(category, set())
Get(keywords, category) == Lookup(keywords, category).value

\* The category weights (lines 202-208), in hundredths.
weights ==
    [technical_skills |-> 40, soft_skills |-> 15, certifications |-> 20,
     education |-> 10, action_verbs |-> 15]

\* The float a weight literal denotes: the double nearest to w / 100.
WeightLiteral == [w \in {weights[c] : c \in DOMAIN weights} |-> IntTrueDiv(w, 100)]

DWeight(w) == WeightLiteral[w]

\* ActionVerbScore with the top of the scale at more than 8 verbs.
ActionVerbScoreAbove(verb_count) ==
    IF verb_count > 8 THEN 1000
    ELSE IF verb_count >= 5 THEN 800
    ELSE IF verb_count >= 3 THEN 600
    ELSE IF verb_count >= 1 THEN 400
    ELSE 100

\* The score of the action_verbs category (lines 217-227), in tenths.
ActionVerbScore(verb_count) ==
    IF verb_count >= 8 THEN 1000
    ELSE IF verb_count >= 5 THEN 800
    ELSE IF verb_count >= 3 THEN 600
    ELSE IF verb_count >= 1 THEN 400
    ELSE 100

\* ActionVerbTarget with the target of 8 verbs reported as it stands.
ActionVerbTargetFixed(verb_count) == 8

\* The reported total of the action_verbs category: max(verb_count, 8).
ActionVerbTarget(verb_count) == IF verb_count > 8 THEN verb_count ELSE 8

\* LinearScore of the share of the job's keywords the resume lacks.
LinearScoreOfMissing(matched, total) ==
    RoundTenths(DMul(IntTrueDiv(total - matched, total), DFromInt(100)))

\* round((matched / total) * 100, 1), in tenths (line 260).
LinearScore(matched, total) ==
    RoundTenths(DMul(IntTrueDiv(matched, total), DFromInt(100)))

\* b^7 and b^10 as natural numbers, for 0 <= b < Base
BPow5(b) ==
    LET b2 == BMulSmall(BFromInt(b), b) IN BMulSmall(BMul(b2, b2), b)
BPow7(b) == BMulSmall(BMulSmall(BPow5(b), b), b)
BPow10(b) == LET b5 == BPow5(b) IN BMul(b5, b5)

\* The largest k in lo..hi with (2k - 1)^10 * t7 <= m7, lo being one such k.
RECURSIVE CurveSearch(_, _, _, _)
CurveSearch(lo, hi, m7, t7) ==
    IF lo = hi THEN lo
    ELSE LET mid == (lo + hi + 1) \div 2
         IN  IF BCmp(BMul(BPow10(2 * mid - 1), t7), m7) <= 0
             THEN CurveSearch(mid, hi, m7, t7)
             ELSE CurveSearch(lo, mid - 1, m7, t7)

\* round(min(100, (matched / total) ** 0.7 * 100), 1), in tenths (lines
\* 257-258), for matched <= total: the k <= 1000 nearest to
\* 1000 * (matched / total)^(7/10), that is the largest k with
\* ((2k - 1) / 2000)^10 <= (matched / total)^7, found by bisection.  The value is irrational
\* when 0 < matched < total, so no tie arises, and the double that
\* pow() returns lies far closer to it than to the nearest k + 1/2.
CurvedScore(matched, total) ==
    IF matched = 0 THEN 0
    ELSE CurveSearch(0, 1000,
                     BMul(BPow10(2000), BPow7(matched)), BPow7(total))

\* The job keyword count above which technical_skills is scored on the
\* curve (line 256).
CurveThreshold == 8

\* UsesCurve with the curve from 8 job keywords on.
UsesCurveFrom(category, total) ==
    category = "technical_skills" /\ total >= CurveThreshold

\* Whether a category's score is taken from the curve.
UsesCurve(category, total) ==
    category = "technical_skills" /\ total > CurveThreshold

\* The category_score of a category the job description has keywords in
\* (lines 256-260), rounded as line 263 stores it.
RatioScore(category, matched, total) ==
    IF UsesCurve(category, total)
    THEN CurvedScore(matched, total)
    ELSE LinearScore(matched, total)

\* CategoryScore with action_verbs scored like the other categories, against
\* the job description's verbs.
CategoryScoreAlike(category, resume_set, job_set) ==
    IF job_set = {}
    THEN [score |-> 1000, matched |-> 0, total |-> 0, weight |-> weights[category]]
    ELSE [score   |-> RatioScore(category, Cardinality(job_set \cap resume_set),
                                 Cardinality(job_set)),
          matched |-> Cardinality(job_set \cap resume_set),
          total   |-> Cardinality(job_set),
          weight  |-> weights[category]]

\* results["category_scores"][category], as the loop of lines 210-274 sets it.
CategoryScore(category, resume_set, job_set) ==
    IF category = "action_verbs"
    THEN [score   |-> ActionVerbScore(Cardinality(resume_set)),
          matched |-> Cardinality(resume_set),
          total   |-> ActionVerbTarget(Cardinality(resume_set)),
          weight  |-> weights[category]]
    ELSE IF job_set = {}
    THEN [score |-> 1000, matched |-> 0, total |-> 0, weight |-> weights[category]]
    ELSE [score   |-> RatioScore(category, Cardinality(job_set \cap resume_set),
                                 Cardinality(job_set)),
          matched |-> Cardinality(job_set \cap resume_set),
          total   |-> Cardinality(job_set),
          weight  |-> weights[category]]

\* The categories the loop writes keyword lists for: it leaves the loop
\* body early (line 247) for a category without job keywords.
ListedCategories(job_keywords) ==
    {c \in Categories : c = "action_verbs" \/ Get(job_keywords, c) # {}}

\* CountedCategories with the action verbs counted too.
CountedWithVerbs(job_keywords) == ListedCategories(job_keywords)

\* The categories that count towards total_job_keywords and total_matched
\* (lines 273-274).
CountedCategories(job_keywords) == ListedCategories(job_keywords) \ {"action_verbs"}

matched_keywords(category, resume_set, job_set) ==
    IF category = "action_verbs" THEN sorted(resume_set)
    ELSE sorted(job_set \cap resume_set)

missing_keywords(category, resume_set, job_set) ==
    IF category = "action_verbs" THEN <<>> ELSE sorted(job_set \ resume_set)

extra_keywords(category, resume_set, job_set) ==
    IF category = "action_verbs" THEN <<>> ELSE sorted(resume_set \ job_set)

\* Contributes with the score tested in place of the total.
ContributesScored(data) == data.score > 0

\* Contributes without the test of line 281.
ContributesAlways(data) == TRUE

\* Whether a category enters the weighted mean (line 281).
Contributes(data) == data.total > 0

\* weighted_score and total_weight after the first i categories (lines
\* 277-283), added up in the order of the dict as floats.
RECURSIVE weighted_score(_, _)
weighted_score(category_scores, i) ==
    IF i = 0 THEN DZero
    ELSE LET data == category_scores[CategoryOrder[i]]
         IN  IF Contributes(data)
             THEN DAdd(weighted_score(category_scores, i - 1),
                       DMul(DTenths(data.score), DWeight(data.weight)))
             ELSE weighted_score(category_scores, i - 1)

RECURSIVE total_weight(_, _)
total_weight(category_scores, i) ==
    IF i = 0 THEN DZero
    ELSE LET data == category_scores[CategoryOrder[i]]
         IN  IF Contributes(data)
             THEN DAdd(total_weight(category_scores, i - 1), DWeight(data.weight))
             ELSE total_weight(category_scores, i - 1)

\* results["overall_score"], in tenths (lines 285-288).
overall_score(category_scores) ==
    LET total == total_weight(category_scores, Len(CategoryOrder))
    IN  IF total.m # <<>>
        THEN RoundTenths(DDiv(weighted_score(category_scores, Len(CategoryOrder)), total))
        ELSE 0

\* The sum of f[c] over the first i categories that are in `counted`.
RECURSIVE SumOver(_, _, _)
SumOver(f, counted, i) ==
    IF i = 0 THEN 0
    ELSE SumOver(f, counted, i - 1)
         + (IF CategoryOrder[i] \in counted THEN f[CategoryOrder[i]] ELSE 0)

\* results["simple_match_ratio"], in tenths (lines 291-293).
simple_match_ratio(total_matched, total_job_keywords) ==
    IF total_job_keywords > 0
    THEN RoundTenths(DMul(IntTrueDiv(total_matched, total_job_keywords),
                          DFromInt(100)))
    ELSE 0

\* Whether calculate_match raises an error: a lookup of the loop raises, or a
\* division has the divisor 0.  Line 257 divides by len(job_set) on the curve,
\* line 260 where job_set is not empty; lines 286 and 292 divide under
\* their own tests.
Raises(resume_keywords, job_keywords) ==
    \/ \E c \in Categories :
          Lookup(job_keywords, c).raised \/ Lookup(resume_keywords, c).raised
    \/ \E c \in Categories \ {"action_verbs"} :
          LET job_set == Get(job_keywords, c)
          IN  /\ job_set # {}                        \* line 240 not taken
              /\ \/ UsesCurve(c, Cardinality(job_set))   \* line 257 divides
                 \/ job_set # {}                         \* line 260 divides
              /\ Cardinality(job_set) = 0            \* by len(job_set) = 0

calculate_match(resume_keywords, job_keywords) ==
    LET category_scores ==
            [c \in Categories |->
                CategoryScore(c, Get(resume_keywords, c), Get(job_keywords, c))]
        listed  == ListedCategories(job_keywords)
        counted == CountedCategories(job_keywords)
        total_job_keywords ==
            SumOver([c \in Categories |-> category_scores[c].total], counted,
                    Len(CategoryOrder))
        total_matched ==
            SumOver([c \in Categories |-> category_scores[c].matched], counted,
                    Len(CategoryOrder))
    IN  [overall_score      |-> overall_score(category_scores),
         category_scores    |-> category_scores,
         matched_keywords   |->
            [c \in listed |->
                matched_keywords(c, Get(resume_keywords, c), Get(job_keywords, c))],
         missing_keywords   |->
            [c \in listed |->
                missing_keywords(c, Get(resume_keywords, c), Get(job_keywords, c))],
         extra_keywords     |->
            [c \in listed |->
                extra_keywords(c, Get(resume_keywords, c), Get(job_keywords, c))],
         simple_match_ratio |-> simple_match_ratio(total_matched, total_job_keywords),
         total_job_keywords |-> total_job_keywords,
         total_matched      |-> total_matched,
         total_missing      |-> total_job_keywords - total_matched]

\* `results` after one more pass of the loop of lines 210-274, for a
\* category: its entry of category_scores, and its keyword lists unless the
\* pass ends at line 247.
loop_body(partial, category, resume_keywords, job_keywords) ==
    LET resume_set == Get(resume_keywords, category)
        job_set == Get(job_keywords, category)
        scored ==
            [partial EXCEPT !.category_scores =
                @ @@ (category :> CategoryScore(category, resume_set, job_set))]
    IN  IF category \in ListedCategories(job_keywords)
        THEN [scored EXCEPT
                !.matched_keywords =
                    @ @@ (category :> matched_keywords(category, resume_set, job_set)),
                !.missing_keywords =
                    @ @@ (category :> missing_keywords(category, resume_set, job_set)),
                !.extra_keywords =
                    @ @@ (category :> extra_keywords(category, resume_set, job_set))]
        ELSE scored

\* What calculate_match returns once the loop has ended (lines 276-298).
finish_match(partial, job_keywords) ==
    LET counted == CountedCategories(job_keywords)
        total_job_keywords ==
            SumOver([c \in Categories |-> partial.category_scores[c].total],
                    counted, Len(CategoryOrder))
        total_matched ==
            SumOver([c \in Categories |-> partial.category_scores[c].matched],
                    counted, Len(CategoryOrder))
    IN  [overall_score      |-> overall_score(partial.category_scores),
         category_scores    |-> partial.category_scores,
         matched_keywords   |-> partial.matched_keywords,
         missing_keywords   |-> partial.missing_keywords,
         extra_keywords     |-> partial.extra_keywords,
         simple_match_ratio |-> simple_match_ratio(total_matched, total_job_keywords),
         total_job_keywords |-> total_job_keywords,
         total_matched      |-> total_matched,
         total_missing      |-> total_job_keywords - total_matched]

(***************************************************************************)
(* ATS formatting checker (keyword_engine.py, lines 301-386)               *)
(***************************************************************************)

\* The characters the pattern [^\x00-\x7F] of line 309 matches.
NonAscii == {"U+2022"}

\* The regular expression class \s, which is also what str.split() splits at.
Whitespace == {" ", "\t", "\n"}

\* str.upper() on one character.
ToUpper ==
    [c \in Char |->
        IF \E i \in DOMAIN LowerCase : LowerCase[i] = c
        THEN UpperCase[CHOOSE i \in DOMAIN LowerCase : LowerCase[i] = c]
        ELSE c]

\* str.title(): a letter that follows no letter is set in upper case, any
\* other letter in lower case.
title(s) ==
    LET IsCased(c) == ToLower[c] # c \/ ToUpper[c] # c
    IN  [i \in DOMAIN s |->
            IF i > 1 /\ IsCased(s[i - 1]) THEN ToLower[s[i]] ELSE ToUpper[s[i]]]

\* separator.join(parts)
RECURSIVE join(_, _)
join(separator, parts) ==
    IF parts = <<>> THEN <<>>
    ELSE IF Len(parts) = 1 THEN parts[1]
    ELSE parts[1] \o separator \o join(separator, Tail(parts))

\* The Python str that a sequence of characters is, as a string of the model.
RECURSIVE Str(_)
Str(chars) == IF chars = <<>> THEN "" ELSE chars[1] \o Str(Tail(chars))

\* part in whole, for two str.
Contains(part, whole) ==
    \E p \in 1..(Len(whole) - Len(part) + 1) :
        \A k \in DOMAIN part : whole[p + k - 1] = part[k]

\* The elements of a list at the positions kept, in the order of the list.
Keep(list, kept) ==
    [n \in 1..Cardinality(kept) |->
        list[CHOOSE i \in kept : Cardinality({j \in kept : j < i}) = n - 1]]

\* A count of the words as len(resume_text.split(' ')) would give it: one more
\* than the number of spaces.
WordCountBySpaces(resume_text) ==
    Cardinality({p \in DOMAIN resume_text : resume_text[p] = " "}) + 1

\* len(resume_text.split()): the words are the runs of characters that are
\* not whitespace.
WordCount(resume_text) ==
    Cardinality({p \in DOMAIN resume_text :
                    /\ resume_text[p] \notin Whitespace
                    /\ p = 1 \/ resume_text[p - 1] \in Whitespace})

\* re.search(r'[^\x00-\x7F]', resume_text)
SearchNonAscii(resume_text) == \E p \in DOMAIN resume_text : resume_text[p] \in NonAscii

\* The class [\w.-] of the e-mail pattern.
AddressChar == WordChar \cup {".", "-"}

\* re.search(r'[\w.-]+@[\w.-]+\.\w+', resume_text): an "@" after an address
\* character, then address characters up to a "." that a word character
\* follows, at least one of them before that ".".
SearchEmail(resume_text) ==
    \E a \in DOMAIN resume_text :
        /\ resume_text[a] = "@"
        /\ a > 1
        /\ resume_text[a - 1] \in AddressChar
        /\ \E d \in (a + 2)..(Len(resume_text) - 1) :
              /\ resume_text[d] = "."
              /\ resume_text[d + 1] \in WordChar
              /\ \A k \in (a + 1)..(d - 1) : resume_text[k] \in AddressChar

\* The class [\d\s\-\(\)] of the phone pattern, and the least length of a run.
PhoneChar == Digit \cup Whitespace \cup {"-", "(", ")"}
PhoneRun == 10

\* re.search(r'[\+]?[\d\s\-\(\)]{10,}', resume_text): the optional "+"
\* may match nothing, so a run of 10 characters of the class decides.
SearchPhone(resume_text) ==
    \E p \in 1..(Len(resume_text) - PhoneRun + 1) :
        \A k \in 0..(PhoneRun - 1) : resume_text[p + k] \in PhoneChar

\* re.search(r'linkedin', resume_text, re.IGNORECASE)
SearchLinkedin(resume_text) ==
    \E p \in DOMAIN resume_text :
        LiteralAt(<<"l", "i", "n", "k", "e", "d", "i", "n">>, resume_text, p)

\* common_sections (line 318) and the sections line 320 requires.
common_sections ==
    <<<<"e", "x", "p", "e", "r", "i", "e", "n", "c", "e">>,
      <<"e", "d", "u", "c", "a", "t", "i", "o", "n">>,
      <<"s", "k", "i", "l", "l", "s">>,
      <<"s", "u", "m", "m", "a", "r", "y">>,
      <<"o", "b", "j", "e", "c", "t", "i", "v", "e">>,
      <<"p", "r", "o", "j", "e", "c", "t", "s">>,
      <<"c", "e", "r", "t", "i", "f", "i", "c", "a", "t", "i", "o", "n", "s">>>>
required_sections ==
    <<<<"e", "x", "p", "e", "r", "i", "e", "n", "c", "e">>,
      <<"e", "d", "u", "c", "a", "t", "i", "o", "n">>,
      <<"s", "k", "i", "l", "l", "s">>>>

\* The word counts below which a resume is too short and above which it
\* is too long (lines 331, 337), and the number of action verbs below
\* which there are few (line 364).
ShortWordCount == 150
LongWordCount == 1200
FewVerbCount == 3

\* The length issue with both limits included.
LengthIssueInclusive(word_count) ==
    IF word_count <= ShortWordCount
    THEN <<[type    |-> "warning",
            message |-> "Resume seems very short",
            detail  |-> "Your resume is about " \o ToString(word_count)
                        \o " words. Most effective resumes are 400-800 words. Consider adding more detail about your accomplishments."]>>
    ELSE IF word_count >= LongWordCount
    THEN <<[type    |-> "info",
            message |-> "Resume is quite long",
            detail  |-> "Your resume is about " \o ToString(word_count)
                        \o " words. For most roles, 1-2 pages (400-800 words) is ideal. Consider trimming less relevant details."]>>
    ELSE <<>>

\* The issue of lines 331-342 for a word count, if any.
LengthIssue(word_count) ==
    IF word_count < ShortWordCount
    THEN <<[type    |-> "warning",
            message |-> "Resume seems very short",
            detail  |-> "Your resume is about " \o ToString(word_count)
                        \o " words. Most effective resumes are 400-800 words. Consider adding more detail about your accomplishments."]>>
    ELSE IF word_count > LongWordCount
    THEN <<[type    |-> "info",
            message |-> "Resume is quite long",
            detail  |-> "Your resume is about " \o ToString(word_count)
                        \o " words. For most roles, 1-2 pages (400-800 words) is ideal. Consider trimming less relevant details."]>>
    ELSE <<>>

\* A count of the verbs that stand in the text as whole words only.
action_verb_count_whole(verbs, resume_text) ==
    LET text_lower == lower(resume_text)
    IN  Cardinality({verb \in verbs : SearchWhole(verb, text_lower)})

\* sum(1 for verb in ACTION_VERBS if _keyword_in_text(verb, resume_text.lower()))
action_verb_count(verbs, resume_text) ==
    LET text_lower == lower(resume_text)
    IN  Cardinality({verb \in verbs : _keyword_in_text(verb, text_lower)})

NoEmailIssue ==
    [type    |-> "critical",
     message |-> "No email address detected",
     detail  |-> "Make sure your email address is clearly visible at the top of your resume."]

\* A checker that holds every missing contact detail against the resume.
ContactIssuesStrict(has_email, has_phone, has_linkedin) ==
    IF has_email /\ has_phone /\ has_linkedin THEN <<>> ELSE <<NoEmailIssue>>

\* The issues of lines 349-354: only a missing e-mail address is one.
ContactIssues(has_email, has_phone, has_linkedin) ==
    IF ~has_email THEN <<NoEmailIssue>> ELSE <<>>

\* The tips of lines 356-360.
ContactTips(has_phone, has_linkedin) ==
    (IF ~has_phone
     THEN <<"Consider adding a phone number to your contact information.">>
     ELSE <<>>)
    \o (IF ~has_linkedin
        THEN <<"Adding your LinkedIn profile URL can strengthen your application.">>
        ELSE <<>>)

\* The tips every report ends with (lines 372-374); the second has, between
\* "footers" and "some", the three characters U+00E2 U+20AC U+201D.
GeneralTips ==
    <<"Use a clean, single-column layout for best ATS compatibility.",
      "Avoid headers and footers <U+00E2><U+20AC><U+201D> some ATS systems can't read them.",
      "Save as PDF unless the application specifically requests DOCX.">>

\* The body of analyze_ats_formatting, given the set ACTION_VERBS it finds
\* in the module when it runs.
check_formatting(verbs, resume_text) ==
    LET text_lower == lower(resume_text)
        found_sections ==
            Keep(common_sections,
                 {i \in DOMAIN common_sections :
                     Contains(common_sections[i], text_lower)})
        missing_sections ==
            Keep(required_sections,
                 {i \in DOMAIN required_sections :
                     ~Contains(required_sections[i], text_lower)})
        word_count == WordCount(resume_text)
        has_email == SearchEmail(resume_text)
        has_phone == SearchPhone(resume_text)
        has_linkedin == SearchLinkedin(resume_text)
        issues ==
            (IF SearchNonAscii(resume_text)
             THEN <<[type    |-> "warning",
                     message |-> "Special characters or symbols detected",
                     detail  |-> "Some ATS systems struggle with emojis, icons, or non-standard characters. Consider replacing them with plain text."]>>
             ELSE <<>>)
            \o (IF missing_sections # <<>>
                THEN <<[type    |-> "warning",
                        message |-> "Missing standard section headers: "
                                    \o Str(title(join(<<",", " ">>, missing_sections))),
                        detail  |-> "ATS systems look for standard section headers to categorize your information. Make sure you have clearly labeled sections."]>>
                ELSE <<>>)
            \o LengthIssue(word_count)
            \o ContactIssues(has_email, has_phone, has_linkedin)
            \o (IF action_verb_count(verbs, resume_text) < FewVerbCount
                THEN <<[type    |-> "warning",
                        message |-> "Few action verbs detected",
                        detail  |-> "Strong resumes use action verbs (led, built, improved, managed) to describe accomplishments. Consider rewriting bullet points to start with impactful verbs."]>>
                ELSE <<>>)
        tips ==
            ContactTips(has_phone, has_linkedin) \o GeneralTips
    IN  [issues           |-> issues,
         tips             |-> tips,
         sections_found   |-> [i \in DOMAIN found_sections |-> Str(found_sections[i])],
         word_count       |-> word_count,
         has_contact_info |->
            [email |-> has_email, phone |-> has_phone, linkedin |-> has_linkedin]]

analyze_ats_formatting(resume_text) == check_formatting(ACTION_VERBS, resume_text)

(***************************************************************************)
(* _smart_truncate_resume (backend/cv_builder.py)                          *)
(***************************************************************************)

\* The alternatives of _EDU_HEADING_RE and of _CERT_HEADING_RE (lines 26-38),
\* each a sequence of tokens: a literal, an optional literal, a run of at
\* least `min` whitespace characters (\s+ or \s*), or one character of a
\* class, which may be optional.  The literals are in lower case, as both
\* expressions ignore case.
_EDU_HEADING_RE ==
    << <<[kind |-> "lit", chars |-> <<"e", "d", "u", "c", "a", "t", "i", "o", "n">>]>>,
       <<[kind |-> "lit", chars |-> <<"a", "c", "a", "d", "e", "m", "i", "c">>],
         [kind |-> "ws", min |-> 1],
         [kind |-> "lit", chars |-> <<"q", "u", "a", "l", "i", "f", "i", "c", "a", "t", "i", "o", "n">>],
         [kind |-> "opt", chars |-> <<"s">>]>>,
       <<[kind |-> "lit", chars |-> <<"a", "c", "a", "d", "e", "m", "i", "c">>],
         [kind |-> "ws", min |-> 1],
         [kind |-> "lit", chars |-> <<"b", "a", "c", "k", "g", "r", "o", "u", "n", "d">>]>>,
       <<[kind |-> "lit", chars |-> <<"e", "d", "u", "c", "a", "t", "i", "o", "n", "a", "l">>],
         [kind |-> "ws", min |-> 1],
         [kind |-> "lit", chars |-> <<"b", "a", "c", "k", "g", "r", "o", "u", "n", "d">>]>>,
       <<[kind |-> "lit", chars |-> <<"e", "d", "u", "c", "a", "t", "i", "o", "n", "a", "l">>],
         [kind |-> "ws", min |-> 1],
         [kind |-> "lit", chars |-> <<"q", "u", "a", "l", "i", "f", "i", "c", "a", "t", "i", "o", "n">>],
         [kind |-> "opt", chars |-> <<"s">>]>>,
       <<[kind |-> "lit", chars |-> <<"a", "c", "a", "d", "e", "m", "i", "c">>],
         [kind |-> "ws", min |-> 1],
         [kind |-> "lit", chars |-> <<"c", "r", "e", "d", "e", "n", "t", "i", "a", "l">>],
         [kind |-> "opt", chars |-> <<"s">>]>>,
       <<[kind |-> "lit", chars |-> <<"a", "c", "a", "d", "e", "m", "i", "c">>],
         [kind |-> "ws", min |-> 1],
         [kind |-> "lit", chars |-> <<"h", "i", "s", "t", "o", "r", "y">>]>> >>

_CERT_HEADING_RE ==
    << <<[kind |-> "lit", chars |-> <<"c", "e", "r", "t", "i", "f", "i", "c", "a", "t", "i", "o", "n">>],
         [kind |-> "opt", chars |-> <<"s">>]>>,
       <<[kind |-> "lit", chars |-> <<"p", "r", "o", "f", "e", "s", "s", "i", "o", "n", "a", "l">>],
         [kind |-> "ws", min |-> 1],
         [kind |-> "lit", chars |-> <<"t", "r", "a", "i", "n", "i", "n", "g">>]>>,
       <<[kind |-> "lit", chars |-> <<"t", "r", "a", "i", "n", "i", "n", "g">>],
         [kind |-> "ws", min |-> 0],
         [kind |-> "any", chars |-> <<"&", "+">>],
         [kind |-> "ws", min |-> 0],
         [kind |-> "lit", chars |-> <<"q", "u", "a", "l", "i", "f", "i", "c", "a", "t", "i", "o", "n">>],
         [kind |-> "opt", chars |-> <<"s">>]>>,
       <<[kind |-> "lit", chars |-> <<"p", "r", "o", "f", "e", "s", "s", "i", "o", "n", "a", "l">>],
         [kind |-> "ws", min |-> 1],
         [kind |-> "lit", chars |-> <<"q", "u", "a", "l", "i", "f", "i", "c", "a", "t", "i", "o", "n">>],
         [kind |-> "opt", chars |-> <<"s">>]>>,
       <<[kind |-> "lit", chars |-> <<"l", "i", "c", "e", "n", "s", "e">>],
         [kind |-> "opt", chars |-> <<"s">>],
         [kind |-> "ws", min |-> 0],
         [kind |-> "any?", chars |-> <<"&", "+">>],
         [kind |-> "ws", min |-> 0],
         [kind |-> "lit", chars |-> <<"c", "e", "r", "t", "i", "f", "i", "c", "a", "t", "i", "o", "n">>],
         [kind |-> "opt", chars |-> <<"s">>]>>,
       <<[kind |-> "lit", chars |-> <<"a", "c", "c", "r", "e", "d", "i", "t", "a", "t", "i", "o", "n">>],
         [kind |-> "opt", chars |-> <<"s">>]>>,
       <<[kind |-> "lit", chars |-> <<"c", "r", "e", "d", "e", "n", "t", "i", "a", "l">>],
         [kind |-> "opt", chars |-> <<"s">>]>>,
       <<[kind |-> "lit", chars |-> <<"p", "r", "o", "f", "e", "s", "s", "i", "o", "n", "a", "l">>],
         [kind |-> "ws", min |-> 1],
         [kind |-> "lit", chars |-> <<"d", "e", "v", "e", "l", "o", "p", "m", "e", "n", "t">>]>> >>

\* _EDU_CERT_HEADING_RE (lines 40-43): either expression.
_EDU_CERT_HEADING_RE == _EDU_HEADING_RE \o _CERT_HEADING_RE

\* The positions where a match of a token that starts at position p of s may
\* end, as the position of the next character.
After(token, s, p) ==
    CASE token.kind = "lit" ->
            IF LiteralAt(token.chars, s, p) THEN {p + Len(token.chars)} ELSE {}
      [] token.kind = "opt" ->
            {p} \cup (IF LiteralAt(token.chars, s, p)
                      THEN {p + Len(token.chars)} ELSE {})
      [] token.kind = "ws" ->
            {q \in (p + token.min)..(Len(s) + 1) :
                \A k \in p..(q - 1) : s[k] \in Whitespace}
      [] token.kind \in {"any", "any?"} ->
            (IF token.kind = "any?" THEN {p} ELSE {})
                \cup (IF p <= Len(s) /\ \E i \in DOMAIN token.chars : s[p] = token.chars[i]
                      THEN {p + 1} ELSE {})

\* The positions where a match of the first n tokens that starts at p may end.
RECURSIVE MatchEnds(_, _, _, _)
MatchEnds(tokens, n, s, p) ==
    IF n = 0 THEN {p}
    ELSE UNION {After(tokens[n], s, q) : q \in MatchEnds(tokens, n - 1, s, p)}

\* Whether an expression ^\s*(?:...)\s*$ with these alternatives, compiled
\* with re.MULTILINE, matches from position p: p begins a line, and after
\* whitespace, an alternative and whitespace comes the end of a line.
HeadingAt(alternatives, s, p) ==
    /\ p = 1 \/ s[p - 1] = "\n"
    /\ \E a \in DOMAIN alternatives :
          LET tokens == <<[kind |-> "ws", min |-> 0]>> \o alternatives[a]
                            \o <<[kind |-> "ws", min |-> 0]>>
          IN  \E q \in MatchEnds(tokens, Len(tokens), s, p) :
                  q = Len(s) + 1 \/ s[q] = "\n"

\* The starts of the matches finditer may report (line 61): the first match
\* it reports starts at the least of them.
HeadingStarts(alternatives, s) ==
    {p \in DOMAIN s : HeadingAt(alternatives, s, p)}

\* s[:n] and s[-n:] for a Python str s: a negative n counts from the end.
SliceTo(s, n) ==
    LET stop == IF n >= 0 THEN n ELSE Len(s) + n
    IN  IF stop <= 0 THEN <<>>
        ELSE IF stop >= Len(s) THEN s
        ELSE SubSeq(s, 1, stop)
\* s[n:] for n >= 0.
SliceFrom(s, n) == IF n >= Len(s) THEN <<>> ELSE SubSeq(s, n + 1, Len(s))
SliceLast(s, n) ==
    IF n = 0 \/ n >= Len(s) THEN s
    ELSE IF n > 0 THEN SubSeq(s, Len(s) - n + 1, Len(s))
    ELSE SliceFrom(s, -n)

\* The marker put where text is left out (line 62).
marker ==
    <<"\n", "\n", "[", ".", ".", ".", " ", "s", "o", "m", "e", " ", "e", "x", "p", "e", "r", "i", "e", "n", "c", "e", " ", "c", "o", "n", "t", "e", "n", "t", " ", "o", "m", "i", "t", "t", "e", "d", " ", "f", "o", "r", " ", "l", "e", "n", "g", "t", "h", " ", ".", ".", ".", "]", "\n", "\n">>

\* The characters kept for the head at least (line 68), the head of a text
\* without headings (line 79) and its least tail (lines 81-82).
HeadReserve == 1500
FallbackHead == 7000
FallbackTail == 1000

\* _smart_truncate_resume(text, max_chars)
_smart_truncate_resume(s, cap) ==
    IF Len(s) <= cap THEN s
    ELSE
        LET matches == HeadingStarts(_EDU_CERT_HEADING_RE, s)
            marker_len == Len(marker)
        IN  IF matches # {}
            THEN LET section_start == CHOOSE p \in matches : \A q \in matches : p <= q
                     whole_tail == SliceFrom(s, section_start - 1)
                     max_tail == cap - HeadReserve - marker_len
                     tail == IF Len(whole_tail) > max_tail
                             THEN SliceTo(whole_tail, max_tail) ELSE whole_tail
                     budget == cap - Len(tail) - marker_len
                     head_budget == IF budget > HeadReserve THEN budget ELSE HeadReserve
                 IN  SliceTo(SliceTo(s, head_budget) \o marker \o tail, cap)
            ELSE LET short == cap - FallbackHead - marker_len < FallbackTail
                     tail_len == IF short THEN FallbackTail
                                 ELSE cap - FallbackHead - marker_len
                     head_len == IF short THEN cap - tail_len - marker_len
                                 ELSE FallbackHead
                 IN  SliceTo(SliceTo(s, head_len) \o marker \o SliceLast(s, tail_len), cap)

(***************************************************************************)
(* Resume parsing (backend/resume_parser.py)                               *)
(***************************************************************************)

\* The whitespace of a line: [^\S\n].
Blank == Whitespace \ {"\n"}

\* s.strip()
strip(s) ==
    LET kept == {i \in DOMAIN s : s[i] \notin Whitespace}
    IN  IF kept = {} THEN <<>>
        ELSE SubSeq(s, CHOOSE i \in kept : \A j \in kept : i <= j,
                       CHOOSE i \in kept : \A j \in kept : j <= i)

\* re.sub(r'[^\S\n]+', ' ', s)  (line 81): a space for each run of blanks.
CollapseBlanks(s) ==
    LET kept == {p \in DOMAIN s : s[p] \in Blank => (p = 1 \/ s[p - 1] \notin Blank)}
        runs == Keep(s, kept)
    IN  [p \in DOMAIN runs |-> IF runs[p] \in Blank THEN " " ELSE runs[p]]

\* re.sub(r'\n{3,}', '\n\n', s)  (line 83): two newlines for each run of
\* three or more.
CollapseNewlines(s) ==
    Keep(s, {p \in DOMAIN s :
                ~(p > 2 /\ s[p] = "\n" /\ s[p - 1] = "\n" /\ s[p - 2] = "\n")})

\* '\n'.join(line.strip() for line in s.split('\n'))  (lines 85-86): a
\* whitespace character goes when only whitespace stands between it and
\* either end of its line.
StripLines(s) ==
    Keep(s, {p \in DOMAIN s :
                s[p] \in Blank =>
                    /\ \E q \in 1..(p - 1) :
                          s[q] \notin Whitespace /\ \A k \in q..p : s[k] # "\n"
                    /\ \E q \in (p + 1)..Len(s) :
                          s[q] \notin Whitespace /\ \A k \in p..q : s[k] # "\n"})

\* clean_text(text)  (lines 78-89)
clean_text(s) == strip(StripLines(CollapseNewlines(CollapseBlanks(s))))

\* What the functions of the parser return: a text or an error.
Parsed(s) == [text |-> s, error |-> "None"]
ParseError(message) == [text |-> <<>>, error |-> message]

\* The least number of words of a pasted resume (line 72).
MinResumeWords == 20

\* extract_text_from_paste(text)  (lines 65-75)
extract_text_from_paste(s) ==
    IF s = <<>> \/ strip(s) = <<>>
    THEN ParseError("No resume text provided. Please paste your resume content.")
    ELSE IF WordCount(clean_text(s)) < MinResumeWords
    THEN ParseError("The pasted text seems too short to be a resume. Please paste your full resume content.")
    ELSE Parsed(clean_text(s))

\* An uploaded file as the libraries that read it show it: whether it can be
\* read, the text of the exception they raise when it cannot, and the texts
\* of its pages (PDF) or of its paragraphs and of the cells of the rows of
\* its tables (DOCX).
\* extract_text_from_pdf(file_path)  (lines 12-30)
extract_text_from_pdf(file) ==
    IF ~file.readable THEN ParseError("Could not read PDF file: " \o file.exception)
    ELSE
        LET text_parts == Keep(file.parts, {i \in DOMAIN file.parts : file.parts[i] # <<>>})
            full_text == join(<<"\n">>, text_parts)
        IN  IF strip(full_text) = <<>>
            THEN ParseError("The PDF appears to be empty or contains only images/scanned content. Try pasting your resume text directly.")
            ELSE Parsed(clean_text(full_text))

\* extract_text_from_docx(file_path)  (lines 33-62)
extract_text_from_docx(file) ==
    IF ~file.readable THEN ParseError("Could not read DOCX file: " \o file.exception)
    ELSE
        LET paragraphs ==
                Keep(file.parts, {i \in DOMAIN file.parts : strip(file.parts[i]) # <<>>})
            row_text(row) ==
                LET cells == Keep(row, {i \in DOMAIN row : strip(row[i]) # <<>>})
                IN  [i \in DOMAIN cells |-> strip(cells[i])]
            rows == Keep(file.rows, {i \in DOMAIN file.rows : row_text(file.rows[i]) # <<>>})
            tables == [i \in DOMAIN rows |-> join(<<" ", "|", " ">>, row_text(rows[i]))]
            full_text == join(<<"\n">>, paragraphs \o tables)
        IN  IF strip(full_text) = <<>>
            THEN ParseError("The DOCX file appears to be empty. Try pasting your resume text directly.")
            ELSE Parsed(clean_text(full_text))

\* The values of a file path and of a file type that are None.
NoFile ==
    [filename |-> <<>>, readable |-> FALSE, exception |-> "", parts |-> <<>>, rows |-> <<>>]
NoType == <<>>

\* parse_resume(file_path, pasted_text, file_type)  (lines 92-125): the file
\* path stands for the file saved there.
parse_resume(file_path, pasted_text, file_type) ==
    LET outcome ==
            IF pasted_text # <<>> THEN extract_text_from_paste(pasted_text)
            ELSE IF file_path # NoFile /\ file_type # NoType
            THEN IF file_type = <<"p", "d", "f">> THEN extract_text_from_pdf(file_path)
                 ELSE IF file_type = <<"d", "o", "c", "x">>
                 THEN extract_text_from_docx(file_path)
                 ELSE ParseError("Unsupported file type: " \o Str(file_type))
            ELSE ParseError("No resume provided. Please upload a file or paste your resume text.")
    IN  IF outcome.error # "None"
        THEN [text |-> <<>>, error |-> outcome.error, word_count |-> 0]
        ELSE [text |-> outcome.text, error |-> "None",
              word_count |-> WordCount(outcome.text)]

(***************************************************************************)
(* The Redis store and the scan counter (app.py)                           *)
(***************************************************************************)

\* A key that is not set, and a key set to a value: a time to live of -1 is
\* none.  The values are numbers: a count, or 1 for a flag or for stored data.
Unset == [exists |-> FALSE, value |-> 0, ttl |-> -1]
Stored(value, ttl) == [exists |-> TRUE, value |-> value, ttl |-> ttl]

\* int(store.get(key) or 0)
GetInt(store, key) == IF store[key].exists THEN store[key].value ELSE 0

\* store.incr(key), store.expire(key, seconds), store.delete(key),
\* store.setex(key, seconds, value)
Incr(store, key) ==
    [store EXCEPT ![key] = IF @.exists THEN [@ EXCEPT !.value = @ + 1]
                           ELSE Stored(1, -1)]
Expire(store, key, seconds) ==
    [store EXCEPT ![key] = IF @.exists THEN [@ EXCEPT !.ttl = seconds] ELSE @]
Delete(store, key) == [store EXCEPT ![key] = Unset]
SetEx(store, key, seconds, value) == [store EXCEPT ![key] = Stored(value, seconds)]

\* _REDIS_KEY (line 74) and hour_key (line 114), where `hour` is the hour of
\* the clock as strftime("%Y%m%d%H") writes it.
_REDIS_KEY == [kind |-> "resumeradar:scan_count", id |-> ""]
hour_key(hour) == [kind |-> "resumeradar:scans_hour", id |-> hour]

\* SCAN_COUNT_BASE (lines 84, 93) and the life of an hour key (line 116).
ScanCountBase == 150
HourKeyLife == 7200

\* _increment_scan_count()  (lines 107-123), from its call to its return, on
\* a store and an in-memory count, in the hour `hour` of the clock: the calls
\* of Redis before the one numbered `failing` succeed, that one raises, and
\* none raises when `failing` is 0.  The count in memory goes up when there
\* is no client or a call raised.
IncrementScanCount(client, store, memory, hour, failing) ==
    LET counted == IF client /\ failing # 1 THEN Incr(store, _REDIS_KEY) ELSE store
        hourly == IF client /\ failing \notin {1, 2} THEN Incr(counted, hour_key(hour))
                  ELSE counted
        expiring == IF client /\ failing = 0
                    THEN Expire(hourly, hour_key(hour), HourKeyLife)
                    ELSE hourly
        fell_back == ~client \/ failing # 0
    IN  [store |-> expiring,
         memory |-> IF fell_back THEN memory + 1 ELSE memory,
         count |-> IF fell_back THEN memory + 1 ELSE GetInt(expiring, _REDIS_KEY)]

\* _read_scan_count()  (lines 97-104)
ReadScanCount(client, store, memory, failing) ==
    IF client /\ failing = 0 THEN GetInt(store, _REDIS_KEY) ELSE memory

(***************************************************************************)
(* The scan endpoint (app.py)                                              *)
(***************************************************************************)

\* ALLOWED_EXTENSIONS (line 59)
ALLOWED_EXTENSIONS == {<<"p", "d", "f">>, <<"d", "o", "c", "x">>}

\* filename.rsplit('.', 1): the parts before and after the last ".", or the
\* name alone when it has none.
RSplitDot(filename) ==
    LET dots == {i \in DOMAIN filename : filename[i] = "."}
    IN  IF dots = {} THEN <<filename>>
        ELSE LET last == CHOOSE i \in dots : \A j \in dots : j <= i
             IN  <<SubSeq(filename, 1, last - 1), SubSeq(filename, last + 1, Len(filename))>>

\* allowed_file(filename)  (lines 137-138)
allowed_file(filename) ==
    /\ \E i \in DOMAIN filename : filename[i] = "."
    /\ lower(RSplitDot(filename)[2]) \in ALLOWED_EXTENSIONS

\* werkzeug's secure_filename(filename): the path separator becomes a space,
\* the words are joined with "_", the characters other than letters, digits,
\* "_", "." and "-" go, and so do "." and "_" at either end.
secure_filename(filename) ==
    LET spaced == [i \in DOMAIN filename |->
                       IF filename[i] \in Whitespace \cup {"/"} THEN " " ELSE filename[i]]
        words == strip(CollapseBlanks(spaced))
        joined == [i \in DOMAIN words |-> IF words[i] = " " THEN "_" ELSE words[i]]
        ascii == Keep(joined, {i \in DOMAIN joined : joined[i] \in WordChar \cup {".", "-"}})
        inner == {i \in DOMAIN ascii : ascii[i] \notin {".", "_"}}
    IN  IF inner = {} THEN <<>>
        ELSE SubSeq(ascii, CHOOSE i \in inner : \A j \in inner : i <= j,
                           CHOOSE i \in inner : \A j \in inner : j <= i)

\* A scan endpoint that takes a job description of any length: the least
\* number of words is that of the empty text.
NoMinJobWords == WordCount(<<>>)

\* The least number of words of a job description (line 201).
MinJobWords == 10

\* Lines 196-224 of scan_resume: the checks of the form, up to the file
\* saved.  The outcome is a response, or the file path and type to parse.
ValidateForm(form) ==
    LET job_description == strip(form.job_description)
        pasted == strip(form.resume_text)
        resume_file == form.resume_file
        filename == secure_filename(resume_file.filename)
        Reject(message) == [status |-> 400, error |-> message, file_path |-> NoFile,
                            file_type |-> NoType, saved |-> FALSE]
    IN  IF job_description = <<>> THEN Reject("Please provide a job description.")
        ELSE IF WordCount(job_description) < MinJobWords
        THEN Reject("The job description seems too short. Please paste the full job description.")
        ELSE IF resume_file # NoFile /\ resume_file.filename # <<>>
        THEN IF ~allowed_file(resume_file.filename)
             THEN Reject("Please upload a PDF or DOCX file.")
             ELSE IF Len(RSplitDot(filename)) < 2
             THEN [status |-> 500, file_path |-> [resume_file EXCEPT !.filename = filename],
                   error |-> "Something went wrong during the analysis. Please try again.",
                   file_type |-> NoType, saved |-> TRUE]
             ELSE [status |-> 0, error |-> "None", saved |-> TRUE,
                   file_path |-> [resume_file EXCEPT !.filename = filename],
                   file_type |-> lower(RSplitDot(filename)[2])]
        ELSE IF pasted = <<>>
        THEN Reject("Please upload a resume file or paste your resume text.")
        ELSE [status |-> 0, error |-> "None", file_path |-> NoFile,
              file_type |-> NoType, saved |-> FALSE]

(***************************************************************************)
(* Payment (backend/stripe_utils.py) and the keys of a CV (app.py)         *)
(***************************************************************************)

\* The keys of a CV token and of a Stripe event (lines 798, 804, 858, 952).
CvKey(token) == [kind |-> "resumeradar:cv", id |-> token]
DownloadsKey(token) == [kind |-> "resumeradar:cv_downloads", id |-> token]
PaidKey(token) == [kind |-> "resumeradar:cv_paid", id |-> token]
DedupKey(event_id) == [kind |-> "resumeradar:cv_emailed", id |-> event_id]

\* The lives of the keys: two hours (lines 592, 809, 953) and the 72 hours
\* in which Stripe retries a webhook (lines 859, 955).
TwoHours == 7200
RetryWindow == 259200

\* store.set(key, value, nx=True, ex=seconds): the store after it, and
\* whether the key was set.
SetNx(store, key, seconds, value) ==
    IF store[key].exists THEN [store |-> store, was_set |-> FALSE]
    ELSE [store |-> SetEx(store, key, seconds, value), was_set |-> TRUE]

\* The Checkout sessions Stripe knows, by id: the payment status and the
\* cv_token of the metadata.  Session.retrieve raises StripeError for any
\* other id.
StripeSessions ==
    (<<"p", "1">> :> [payment_status |-> "paid", cv_token |-> "t1",
                      delivery_email |-> "a@b.co"]) @@
    (<<"u", "1">> :> [payment_status |-> "unpaid", cv_token |-> "t1",
                      delivery_email |-> ""]) @@
    (<<"p", "2">> :> [payment_status |-> "paid", cv_token |-> "t2",
                      delivery_email |-> ""])

\* A verification that looks at the payment status alone.
verify_paid_only(session_id, expected_token) ==
    IF session_id \notin DOMAIN StripeSessions
    THEN [verified |-> FALSE, reason |-> "Could not verify payment.", delivery_email |-> ""]
    ELSE IF StripeSessions[session_id].payment_status # "paid"
    THEN [verified |-> FALSE, reason |-> "Payment not completed.", delivery_email |-> ""]
    ELSE [verified |-> TRUE, reason |-> "None",
          delivery_email |-> StripeSessions[session_id].delivery_email]

\* verify_checkout_payment(session_id, expected_token)  (lines 60-88)
verify_checkout_payment(session_id, expected_token) ==
    IF session_id \notin DOMAIN StripeSessions
    THEN [verified |-> FALSE, reason |-> "Could not verify payment.", delivery_email |-> ""]
    ELSE LET session == StripeSessions[session_id]
         IN  IF session.payment_status # "paid"
             THEN [verified |-> FALSE, reason |-> "Payment not completed.",
                   delivery_email |-> ""]
             ELSE IF session.cv_token # expected_token
             THEN [verified |-> FALSE, reason |-> "Token mismatch.", delivery_email |-> ""]
             ELSE [verified |-> TRUE, reason |-> "None",
                   delivery_email |-> session.delivery_email]

NoEvent == [id |-> "None", type |-> "None", cv_token |-> "", delivery_email |-> ""]

\* A verification that takes any signature.
accept_any_signature(secret, payload, sig_header) == payload

\* verify_webhook_signature(payload, sig_header)  (lines 91-114), where
\* `secret` tells whether STRIPE_WEBHOOK_SECRET is set: the event of the
\* payload when the signature header is the one Stripe made for it with the
\* secret, and None otherwise.
verify_webhook_signature(secret, payload, sig_header) ==
    IF ~secret THEN NoEvent
    ELSE IF sig_header # "valid" THEN NoEvent
    ELSE payload

\* The most downloads of a CV (line 806).
MaxDownloadsOfCv == 3

(***************************************************************************)
(* State                                                                   *)
(***************************************************************************)

VARIABLES
    text,             \* the argument of extract_keywords_from_text
    found,            \* its local dict `found`, the value it returns
    extract_pc,       \* "call" before it has run, "done" after
    resume_keywords,  \* the arguments of calculate_match
    job_keywords,
    results,          \* its local dict `results`, the value it returns
    match_pc,         \* "call" before it has run, "done" after
    resume_text,      \* the argument of analyze_ats_formatting
    report,           \* the value it returns
    format_pc,        \* "call" before it has run, "done" after
    taxonomy,         \* the five module-level keyword sets
    calls,            \* concurrent invocations: function, argument, position, result
    frames,           \* the local variables of each of them
    long_text,        \* the arguments of _smart_truncate_resume
    max_chars,
    truncated,        \* the value it returns
    truncate_pc,      \* "call" before it has run, "done" after
    scan_request,     \* the form of the request to /api/scan being handled
    scan_pc,          \* the position of scan_resume in its code
    scan_locals,      \* its local variables
    scan_response,    \* the response it has returned
    scan_calls,       \* the functions it has called, in the order of the calls
    uploads,          \* the files in UPLOAD_FOLDER
    redis,            \* the keys of the Redis store
    _redis_client,    \* whether the application has a Redis client
    _fallback_count,  \* the scan count in memory
    downloads,        \* the invocations of build_download: request, position, locals
    served,           \* the CV files returned so far, per token
    generated,        \* the storage a generate route has answered, per token
    deliveries,       \* the invocations of build_webhook: request, position, locals
    emails,           \* the CV emails sent so far, per event
    STRIPE_WEBHOOK_SECRET,  \* whether the variable of the environment is set
    RESEND_API_KEY

vars ==
    <<text, found, extract_pc, resume_keywords, job_keywords, results, match_pc,
      resume_text, report, format_pc, taxonomy, calls, frames,
      long_text, max_chars, truncated, truncate_pc,
      scan_request, scan_pc, scan_locals, scan_response, scan_calls, uploads,
      redis, _redis_client, _fallback_count, downloads, served, generated,
      deliveries, emails, STRIPE_WEBHOOK_SECRET, RESEND_API_KEY>>

extract_vars == <<text, found, extract_pc>>
match_vars == <<resume_keywords, job_keywords, results, match_pc>>
format_vars == <<resume_text, report, format_pc>>
call_vars == <<calls, frames>>
truncate_vars == <<long_text, max_chars, truncated, truncate_pc>>
scan_vars == <<scan_request, scan_pc, scan_locals, scan_response, scan_calls, uploads>>
store_vars == <<redis, _redis_client, _fallback_count>>
download_vars == <<downloads, served>>
webhook_vars == <<deliveries, emails, STRIPE_WEBHOOK_SECRET, RESEND_API_KEY>>
build_vars == <<generated>>
pay_vars == <<download_vars, webhook_vars, build_vars>>
app_vars == <<truncate_vars, scan_vars, store_vars, pay_vars>>
engine_vars == <<extract_vars, match_vars, format_vars, taxonomy, call_vars>>

(***************************************************************************)
(* Inputs                                                                  *)
(***************************************************************************)

\* The words the texts given to the extractor are made of.
Vocabulary ==
  {
    <<"m","i","c","r","o","s","o","f","t">>, <<"a","z","u","r","e">>, <<"a","z","u","r">>,
    <<"A","z","u","r","e">>, <<"c","o","l","l","a","b","o","r","a","t","e","d">>,
    <<"l","e","d">>, <<"c","+","+">>, <<"b",".","s",".">>, <<"x","a","z","u","r","e">>,
    <<"p","y","t","h","o","n">>
  }

\* The longest text, in words.
MaxWords == 2

\* ' '.join(words)
RECURSIVE Join(_)
Join(words) ==
    IF words = <<>> THEN <<>>
    ELSE IF Len(words) = 1 THEN words[1]
    ELSE words[1] \o <<" ">> \o Join(Tail(words))

Texts == {Join(words) : words \in UNION {[1..n -> Vocabulary] : n \in 0..MaxWords}}

\* The keywords the sets given to the scorer are made of, per category:
\* taxonomy terms, in an order that is not the alphabetical one.
TechPool ==
  <<
    <<"a","w","s">>, <<"p","y","t","h","o","n">>, <<"d","o","c","k","e","r">>,
    <<"a","z","u","r","e">>, <<"g","c","p">>,
    <<"g","o","o","g","l","e"," ","c","l","o","u","d">>,
    <<"a","m","a","z","o","n"," ","w","e","b"," ","s","e","r","v","i","c","e","s">>,
    <<"c","l","o","u","d"," ","c","o","m","p","u","t","i","n","g">>, <<"e","c","2">>,
    <<"s","3">>, <<"l","a","m","b","d","a">>, <<"r","d","s">>, <<"v","p","c">>, <<"i","a","m">>,
    <<"c","l","o","u","d","f","o","r","m","a","t","i","o","n">>,
    <<"c","l","o","u","d","w","a","t","c","h">>, <<"t","e","r","r","a","f","o","r","m">>,
    <<"a","n","s","i","b","l","e">>, <<"p","u","p","p","e","t">>, <<"c","h","e","f">>,
    <<"i","n","f","r","a","s","t","r","u","c","t","u","r","e"," ","a","s"," ","c","o","d","e">>,
    <<"i","a","c">>, <<"k","u","b","e","r","n","e","t","e","s">>, <<"k","8","s">>
  >>

SoftPool ==
  <<
    <<"l","e","a","d","e","r","s","h","i","p">>,
    <<"c","o","m","m","u","n","i","c","a","t","i","o","n">>, <<"t","e","a","m","w","o","r","k">>
  >>

CertPool ==
  <<
    <<"p","m","p">>, <<"a","w","s"," ","c","e","r","t","i","f","i","e","d">>,
    <<"c","i","s","s","p">>
  >>

EduPool ==
  <<
    <<"m","b","a">>, <<"b","a","c","h","e","l","o","r">>, <<"d","e","g","r","e","e">>
  >>

VerbPool ==
  <<
    <<"l","e","d">>, <<"m","a","n","a","g","e","d">>, <<"d","e","v","e","l","o","p","e","d">>,
    <<"d","e","s","i","g","n","e","d">>, <<"i","m","p","l","e","m","e","n","t","e","d">>,
    <<"b","u","i","l","t">>, <<"c","r","e","a","t","e","d">>,
    <<"l","a","u","n","c","h","e","d">>, <<"d","e","l","i","v","e","r","e","d">>,
    <<"i","m","p","r","o","v","e","d">>, <<"o","p","t","i","m","i","z","e","d">>,
    <<"r","e","d","u","c","e","d">>
  >>


Pool(category) ==
    CASE category = "technical_skills" -> TechPool
      [] category = "soft_skills"      -> SoftPool
      [] category = "certifications"   -> CertPool
      [] category = "education"        -> EduPool
      [] category = "action_verbs"     -> VerbPool

Prefix(pool, n) == {pool[i] : i \in 1..n}

\* The largest technical_skills set of a job description, and the most
\* action verbs of a resume.
MaxTech == 20
MaxVerbs == 9

NonVerbCategories == Categories \ {"action_verbs"}

\* How a category may stand in the two mappings: absent from both; wanted
\* by the job but absent from the resume mapping; not wanted but present
\* in the resume; half matched with an extra keyword; matched exactly.
Shapes(pool) ==
    << [in_job |-> FALSE, job |-> {}, in_resume |-> FALSE, resume |-> {}],
       [in_job |-> TRUE, job |-> {pool[1]}, in_resume |-> FALSE, resume |-> {}],
       [in_job |-> TRUE, job |-> {}, in_resume |-> TRUE, resume |-> {pool[1]}],
       [in_job |-> TRUE, job |-> {pool[1], pool[2]},
        in_resume |-> TRUE, resume |-> {pool[2], pool[3]}],
       [in_job |-> TRUE, job |-> {pool[1], pool[2]},
        in_resume |-> TRUE, resume |-> {pool[1], pool[2]}] >>

\* One number of action verbs for each score of the scale of lines 218-227.
VerbBands == {0, 1, 3, 5, 8}

\* Pairs <<resume_keywords, job_keywords>> that vary every category: each
\* non-verb category takes any shape, and the resume has a number of
\* action verbs of any band; the job mapping has no action_verbs key.
MixedInputs ==
    { <<[c \in {c \in Categories :
                    c = "action_verbs" \/ Shapes(Pool(c))[choice[c]].in_resume} |->
            IF c = "action_verbs" THEN Prefix(VerbPool, n)
            ELSE Shapes(Pool(c))[choice[c]].resume],
        [c \in {c \in NonVerbCategories : Shapes(Pool(c))[choice[c]].in_job} |->
            Shapes(Pool(c))[choice[c]].job]>> :
      choice \in [NonVerbCategories -> DOMAIN Shapes(TechPool)],
      n \in VerbBands }

\* Pairs that sweep the technical_skills category, as two outputs of the
\* extractor (every category present): the job description lists the first
\* km[1] technical keywords, the resume has the first km[2] of them and
\* possibly one the job does not list.
SweepInputs ==
    { <<[c \in Categories |->
            IF c = "technical_skills"
            THEN Prefix(TechPool, km[2]) \cup (IF extra THEN {TechPool[km[1] + 1]} ELSE {})
            ELSE {}],
        [c \in Categories |->
            IF c = "technical_skills" THEN Prefix(TechPool, km[1]) ELSE {}]>> :
      km \in {p \in (0..MaxTech) \X (0..MaxTech) : p[2] <= p[1]},
      extra \in BOOLEAN }

\* Pairs that sweep the action verbs: the resume has the first n, the job
\* description the first j (or no action_verbs key, when absent), and the
\* job lists three technical keywords the resume has two of, or nothing.
VerbInputs ==
    { <<[technical_skills |-> IF tech THEN Prefix(TechPool, 2) ELSE {},
         action_verbs |-> Prefix(VerbPool, n)],
        [c \in (IF absent THEN {"technical_skills"}
                          ELSE {"technical_skills", "action_verbs"}) |->
            IF c = "technical_skills"
            THEN (IF tech THEN Prefix(TechPool, 3) ELSE {})
            ELSE Prefix(VerbPool, j)]>> :
      n \in 0..MaxVerbs, j \in 0..MaxVerbs, tech \in BOOLEAN, absent \in BOOLEAN }

\* Pairs of mappings that omit categories: each mapping has any of the
\* categories as its keys, with one keyword for the resume and two for the
\* job in each, or with empty sets throughout.
SparseInputs ==
    { <<[c \in resume_keys |-> IF empty THEN {} ELSE Prefix(Pool(c), 1)],
        [c \in job_keys |-> IF empty THEN {} ELSE Prefix(Pool(c), 2)]>> :
      resume_keys \in SUBSET Categories, job_keys \in SUBSET Categories,
      empty \in BOOLEAN }

\* Pairs in which the resume has exactly the job's keywords in every
\* non-verb category, the job having size[c] of them, and the resume has n
\* action verbs.
EqualInputs ==
    { <<[c \in Categories |->
            IF c = "action_verbs" THEN Prefix(VerbPool, n)
            ELSE Prefix(Pool(c), size[c])],
        [c \in NonVerbCategories |-> Prefix(Pool(c), size[c])]>> :
      size \in {f \in [NonVerbCategories -> {1, 2, 3, CurveThreshold, CurveThreshold + 1, MaxTech}] :
                    \A c \in NonVerbCategories : c # "technical_skills" => f[c] <= 3},
      n \in {7, 8, MaxVerbs} }

\* The pieces the texts given to the formatting checker are made of.
FormatVocabulary ==
    { <<"e", "x", "p", "e", "r", "i", "e", "n", "c", "e">>,
      <<"E", "d", "u", "c", "a", "t", "i", "o", "n", " ", "s", "k", "i", "l", "l", "s">>,
      <<"a", "@", "b", ".", "c", "o">>,
      <<"a", "@", "b">>,
      <<"5", "5", "5", "-", "1", "2", "3", "-", "4", "5", "6", "7">>,
      <<"L", "i", "n", "k", "e", "d", "I", "n">>,
      <<"U+2022">>,
      <<"l", "e", "d", " ", "m", "a", "n", "a", "g", "i", "n", "g">>,
      <<"b", "u", "i", "l", "t">>,
      <<"x">> }

\* n words "a", each followed by the separator.
Padding(n, separator) ==
    [i \in 1..(2 * n) |-> IF i % 2 = 1 THEN "a" ELSE separator]

\* Texts with word counts at and next to the two thresholds.
PaddedTexts ==
    { Padding(ShortWordCount - 1, " "), Padding(ShortWordCount, "\n"),
      Padding(LongWordCount, " "), Padding(LongWordCount + 1, "\t") }

FormatTexts ==
    {Join(pieces) : pieces \in UNION {[1..n -> FormatVocabulary] : n \in 0..MaxWords}}
        \cup PaddedTexts

(***************************************************************************)
(* Operations                                                              *)
(***************************************************************************)

\* `found` and `results` as the functions create them (lines 127-133 and
\* 190-196).
NoneFound == [category \in Categories |-> {}]
EmptyResults ==
    [overall_score |-> 0, category_scores |-> <<>>, matched_keywords |-> <<>>,
     missing_keywords |-> <<>>, extra_keywords |-> <<>>]

\* `report` before analyze_ats_formatting has returned one.
NoReport == <<>>

InitExtract ==
    /\ text \in Texts
    /\ found = NoneFound
    /\ extract_pc = "call"

InitFormat ==
    /\ resume_text \in FormatTexts
    /\ report = NoReport
    /\ format_pc = "call"

\* The module has been imported: its keyword sets are as lines 16-117
\* define them.
Loaded == taxonomy = TaxonomySets

InitMatch ==
    /\ \E input \in MixedInputs \cup SweepInputs \cup VerbInputs \cup EqualInputs :
          /\ resume_keywords = input[1]
          /\ job_keywords = input[2]
    /\ results = EmptyResults
    /\ match_pc = "call"

\* Resumes that grow: the first k technical keywords, possibly with one that
\* no job below lists, the first s soft skills and the first n action verbs.
GrowResumes ==
    { [technical_skills |-> Prefix(TechPool, k)
                             \cup (IF extra THEN {TechPool[MaxTech]} ELSE {}),
       soft_skills      |-> Prefix(SoftPool, s),
       action_verbs     |-> Prefix(VerbPool, n)] :
      k \in 0..3, extra \in BOOLEAN, s \in 0..1, n \in {0, 1, 3} }

\* The job descriptions they are scored against: one scored on the line, one
\* with more than CurveThreshold technical keywords.
GrowJobs ==
    { [technical_skills |-> Prefix(TechPool, 3), soft_skills |-> Prefix(SoftPool, 2)],
      [technical_skills |-> Prefix(TechPool, CurveThreshold + 1)] }

\* A call of the scorer on one of the resumes that grow.
InitGrow ==
    /\ resume_keywords \in GrowResumes
    /\ job_keywords \in GrowJobs
    /\ results = EmptyResults
    /\ match_pc = "call"

\* A call of the scorer on mappings that omit categories.
InitSparse ==
    /\ \E input \in SparseInputs :
          /\ resume_keywords = input[1]
          /\ job_keywords = input[2]
    /\ results = EmptyResults
    /\ match_pc = "call"

\* No call of the other function is under way.
IdleExtract ==
    /\ text = <<>>
    /\ found = NoneFound
    /\ extract_pc = "idle"

IdleMatch ==
    /\ resume_keywords = <<>>
    /\ job_keywords = <<>>
    /\ results = EmptyResults
    /\ match_pc = "idle"

IdleFormat ==
    /\ resume_text = <<>>
    /\ report = NoReport
    /\ format_pc = "idle"

\* No concurrent invocations are under way.
\* Texts for _smart_truncate_resume: three paragraphs of up to MaxParagraph
\* units, with a line between each two of them that is an education heading,
\* a certification heading, a heading of another section, or left out.
ParagraphUnit == 900
MaxParagraph == 2
Paragraph(units) == [i \in 1..(units * ParagraphUnit) |-> "x"]
HeadingLines ==
    { <<>>,
      <<"\n", "E", "D", "U", "C", "A", "T", "I", "O", "N", "\n">>,
      <<"\n", "C", "e", "r", "t", "i", "f", "i", "c", "a", "t", "i", "o", "n", "s", "\n">>,
      <<"\n", "S", "K", "I", "L", "L", "S", "\n">> }
LongTexts ==
    { Paragraph(a) \o first \o Paragraph(b) \o second \o Paragraph(c) :
        a \in 0..MaxParagraph, b \in 0..MaxParagraph, c \in 0..MaxParagraph,
        first \in HeadingLines, second \in HeadingLines }

\* The limits it is called with: the smallest that leaves room for a head,
\* the marker and a tail, and one that leaves the tail MaxParagraph units.
SmallCap == 1600
Caps == {SmallCap, HeadReserve + Len(marker) + MaxParagraph * ParagraphUnit}

\* A call of _smart_truncate_resume.
InitTruncate ==
    /\ long_text \in LongTexts
    /\ max_chars \in Caps
    /\ truncated = <<>>
    /\ truncate_pc = "call"

\* No call of _smart_truncate_resume.
IdleTruncate ==
    /\ long_text = <<>>
    /\ max_chars = 0
    /\ truncated = <<>>
    /\ truncate_pc = "idle"

\* The text that begins with `lead` and goes on with the word "a" up to n
\* words in all.
Filled(lead, n) ==
    lead \o [i \in 1..(2 * (n - WordCount(lead))) |-> IF i % 2 = 1 THEN " " ELSE "a"]

\* Job descriptions: none, blank, short, and of MinJobWords words or one less.
JobTexts ==
    { <<>>, <<" ", "\n">>, <<"t", "o", "o", " ", "s", "h", "o", "r", "t">>,
      Filled(<<"p", "y", "t", "h", "o", "n", " ", "a", "w", "s", " ", "l", "e", "d">>, MinJobWords - 1),
      <<" ">> \o Filled(<<"p", "y", "t", "h", "o", "n", " ", "a", "w", "s", " ", "l", "e", "d", " ", "d", "o", "c", "k", "e", "r">>, MinJobWords) \o <<"\n">> }

\* Pasted resumes: none, blank, and of MinResumeWords words or one less.
PastedTexts ==
    { <<>>, <<" ", " ">>,
      Filled(<<"p", "y", "t", "h", "o", "n", " ", "l", "e", "d">>, MinResumeWords - 1),
      Filled(<<"p", "y", "t", "h", "o", "n", " ", "m", "a", "n", "a", "g", "e", "d", " ", "a", "@", "b", ".", "c", "o">>, MinResumeWords) }

\* Uploaded files: PDF and DOCX files of few and of many words, without
\* text, or that cannot be read, and files of other names.
File(filename, readable, parts, rows) ==
    [filename |-> filename, readable |-> readable, exception |-> "", parts |-> parts,
     rows |-> rows]
Unreadable(filename, exception) ==
    [filename |-> filename, readable |-> FALSE, exception |-> exception, parts |-> <<>>,
     rows |-> <<>>]
FewWords == 5
ResumeFiles ==
    { NoFile,
      File(<<"c", "v", ".", "p", "d", "f">>, TRUE, <<Filled(<<"p", "y", "t", "h", "o", "n">>, FewWords)>>, <<>>),
      File(<<"C", "V", ".", "P", "D", "F">>, TRUE, <<<<>>, Filled(<<"p", "y", "t", "h", "o", "n", " ", "l", "e", "d">>, MinResumeWords), <<"a", "w", "s">>>>, <<>>),
      File(<<"s", "c", "a", "n", ".", "p", "d", "f">>, TRUE, <<<<>>, <<" ">>>>, <<>>),
      Unreadable(<<"b", "a", "d", ".", "p", "d", "f">>, "EOF marker not found"),
      Unreadable(<<"b", "a", "d", ".", "d", "o", "c", "x">>, "File is not a zip file"),
      File(<<"c", "v", ".", "d", "o", "c", "x">>, TRUE, <<<<"p", "y", "t", "h", "o", "n", " ", "l", "e", "d">>, <<" ">>>>, <<<<<<"a", "w", "s">>, <<>>, <<" ", "d", "o", "c", "k", "e", "r", " ">>>>>>),
      File(<<"m", "y", " ", "c", "v", ".", "D", "O", "C", "X">>, TRUE, <<Filled(<<"p", "y", "t", "h", "o", "n">>, MinResumeWords)>>, <<>>),
      File(<<"c", "v", ".", "t", "x", "t">>, TRUE, <<<<"p", "y", "t", "h", "o", "n">>>>, <<>>),
      File(<<".", "p", "d", "f">>, TRUE, <<<<"p", "y", "t", "h", "o", "n">>>>, <<>>) }

ScanRequests ==
    [job_description : JobTexts, resume_text : PastedTexts, resume_file : ResumeFiles]

\* The keys of the Redis store.
Tokens == {"t1", "t2"}
Events == {"evt_1"}
Hours == {"2026103005", "2026103006"}
RedisKeys ==
    {_REDIS_KEY} \cup {hour_key(h) : h \in Hours}
        \cup {CvKey(t) : t \in Tokens} \cup {DownloadsKey(t) : t \in Tokens}
        \cup {PaidKey(t) : t \in Tokens} \cup {DedupKey(e) : e \in Events}

\* The local variables of scan_resume before it has assigned them, and those
\* of _increment_scan_count: the hour of hour_key, and `count`.
NoLocals ==
    [job_description |-> <<>>, file_path |-> NoFile, file_type |-> NoType,
     parse_result |-> [text |-> <<>>, error |-> "None", word_count |-> 0],
     resume_keywords |-> NoneFound, job_keywords |-> NoneFound,
     match_results |-> EmptyResults, ats_check |-> NoReport, ai_suggestions |-> "None",
     hour |-> "", count |-> 0]
NoRequest == [job_description |-> <<>>, resume_text |-> <<>>, resume_file |-> NoFile]
NoResponse == [status |-> 0, error |-> "None"]

\* No request to /api/scan.
IdleScan ==
    /\ scan_request = NoRequest
    /\ scan_pc = "idle"
    /\ scan_locals = NoLocals
    /\ scan_response = NoResponse
    /\ scan_calls = <<>>
    /\ uploads = {}

\* The store and the counts as the module leaves them when it is loaded
\* without a Redis client (lines 77-93).
IdleStore ==
    /\ redis = [key \in RedisKeys |-> Unset]
    /\ _redis_client = FALSE
    /\ _fallback_count = ScanCountBase

\* A request to /api/scan arrives at an application with or without a Redis
\* client, whose counts are those a start or an earlier scan has left: the
\* key of the hour of an earlier scan is there until it expires.
InitScan ==
    /\ scan_request \in ScanRequests
    /\ scan_pc = "validate"
    /\ scan_locals = NoLocals
    /\ scan_response = NoResponse
    /\ scan_calls = <<>>
    /\ uploads = {}
    /\ _redis_client \in BOOLEAN
    /\ \E counted \in {ScanCountBase, ScanCountBase + 1} :
          /\ _fallback_count \in {ScanCountBase, counted}
          /\ \E hourly \in BOOLEAN :
                redis = [key \in RedisKeys |->
                            IF _redis_client /\ key = _REDIS_KEY THEN Stored(counted, -1)
                            ELSE IF /\ _redis_client /\ counted > ScanCountBase /\ hourly
                                    /\ key = hour_key("2026103005")
                            THEN Stored(1, HourKeyLife)
                            ELSE Unset]

\* No request for a download.
IdleDownloads ==
    /\ downloads = <<>>
    /\ served = [t \in Tokens |-> 0]

\* No token has been given out.
IdleBuild == generated = [t \in Tokens |-> "none"]

\* The bodies of the requests to /api/build/generate: the target job
\* description and the full name of `personal`; and those of the requests to
\* /api/build/generate-from-scan.  A body without fields is none, or {}.
NoBody == [target_job_description |-> <<>>, full_name |-> <<>>]
GenerateBodies ==
    {NoBody} \cup [target_job_description : {<<" ">>, <<"d", "e", "v">>},
                   full_name : {<<>>, <<"A", "n", "n">>}]
NoScanBody == [resume_text |-> <<>>, job_description |-> <<>>]
GenerateFromScanBodies ==
    {NoScanBody} \cup [resume_text : {<<" ">>, <<"p", "y", "t", "h", "o", "n">>},
                       job_description : {<<>>, <<"d", "e", "v">>}]

\* Requests for a download: a token, the session_id of the query or of the
\* body, and the cv_data of the body of a POST: none, the data of a CV, or
\* a JSON list, of which no PDF can be made.
MaxDownloads == 2
SessionIds == {<<>>, <<" ">>, <<"p", "1", " ">>, <<"u", "1">>, <<"p", "2">>, <<"x">>}
DownloadRequests ==
    [token : {"t1"}, session_id : SessionIds, client_cv_data : {"None"}]
        \cup [token : {"t1"}, session_id : {<<"p", "1", " ">>}, client_cv_data : {"cv"}]
        \cup [token : {"t2"}, session_id : {<<"p", "2">>},
              client_cv_data : {"None", "cv", "list"}]

\* The requests whose payment Stripe verifies.
VerifiedRequests ==
    {r \in DownloadRequests :
        verify_checkout_payment(strip(r.session_id), r.token).verified}

\* An invocation of build_download before its request has come.
IdleDownload ==
    [request |-> [token |-> "", session_id |-> <<>>, client_cv_data |-> "None"],
     pc |-> "idle", cv_data |-> "None", touched |-> {},
     response |-> NoResponse]

\* The application with or without a Redis client.  A generate route has
\* given out token t1 and not yet token t2; with a client, the data of the
\* CV of t1 are stored and up to MaxDownloadsOfCv requests, one after the
\* other, have each returned the file and counted it.
StoreOfDownloads ==
    /\ _redis_client \in BOOLEAN
    /\ _fallback_count = ScanCountBase
    /\ generated = [t \in Tokens |-> IF t # "t1" THEN "none"
                                     ELSE IF _redis_client THEN "server" ELSE "client"]
    /\ \E earlier \in 0..MaxDownloadsOfCv :
          /\ served = [t \in Tokens |-> IF _redis_client /\ t = "t1" THEN earlier ELSE 0]
          /\ redis = [key \in RedisKeys |->
                         IF ~_redis_client THEN Unset
                         ELSE IF key = _REDIS_KEY THEN Stored(ScanCountBase, -1)
                         ELSE IF key = CvKey("t1") THEN Stored(1, TwoHours)
                         ELSE IF key = DownloadsKey("t1") /\ earlier > 0
                         THEN Stored(earlier, TwoHours)
                         ELSE Unset]

\* MaxDownloads requests for a download are to come.
InitDownloads ==
    /\ downloads = [i \in 1..MaxDownloads |-> IdleDownload]
    /\ StoreOfDownloads

\* Two requests for a download are to come.
InitPayment ==
    /\ downloads = <<IdleDownload, IdleDownload>>
    /\ StoreOfDownloads

\* Deliveries of a webhook: the Stripe-Signature header, which is missing,
\* invalid or the one Stripe made for the payload, and the event of the payload.
MaxDeliveries == 2
Completed(cv_token, delivery_email) ==
    [id |-> "evt_1", type |-> "checkout.session.completed", cv_token |-> cv_token,
     delivery_email |-> delivery_email]
WebhookRequests ==
    [sig_header : {"", "invalid"}, payload : {Completed("t1", "a@b.co")}]
        \cup [sig_header : {"valid"},
              payload : {Completed("t1", "a@b.co"), Completed("t1", ""),
                         Completed("", "a@b.co"),
                         [Completed("t1", "a@b.co") EXCEPT !.type = "payment_intent.created"]}]

\* An invocation of build_webhook before its request has come.  `acquired`,
\* `saw_data`, `raised`, `release_raised` and `sent` tell what _send_cv_email
\* did in it: it set the dedup key, read the data of the CV, entered its
\* exception handler, had its last delete raise, sent the email.
IdleDelivery ==
    [request |-> [sig_header |-> "", payload |-> NoEvent], pc |-> "idle",
     acquired |-> FALSE, saw_data |-> FALSE, raised |-> FALSE, release_raised |-> FALSE,
     sent |-> FALSE, touched |-> {}, status |-> 0]

\* The application with or without the webhook secret, the key of the email
\* service and a Redis client.  A generate route has given out token t2,
\* whose data the client keeps; token t1 it has not given out yet, or it has
\* and, with a client, an earlier delivery of the event has sent its email
\* and left the keys of lines 859, 953 and 955.
InitWebhook ==
    /\ deliveries = [i \in 1..MaxDeliveries |-> IdleDelivery]
    /\ STRIPE_WEBHOOK_SECRET \in BOOLEAN
    /\ RESEND_API_KEY \in BOOLEAN
    /\ _redis_client \in BOOLEAN
    /\ _fallback_count = ScanCountBase
    /\ \E earlier \in BOOLEAN :
          LET delivered == /\ earlier /\ _redis_client
                           /\ STRIPE_WEBHOOK_SECRET /\ RESEND_API_KEY
          IN  /\ emails = [e \in Events |-> IF delivered THEN 1 ELSE 0]
              /\ generated = [t \in Tokens |-> IF t = "t2" THEN "client"
                                               ELSE IF delivered THEN "server"
                                               ELSE "none"]
              /\ redis = [key \in RedisKeys |->
                             IF ~_redis_client THEN Unset
                             ELSE IF key = _REDIS_KEY THEN Stored(ScanCountBase, -1)
                             ELSE IF key = CvKey("t1") /\ delivered
                             THEN Stored(1, RetryWindow)
                             ELSE IF key = PaidKey("t1") /\ delivered
                             THEN Stored(1, TwoHours)
                             ELSE IF key = DedupKey("evt_1") /\ delivered
                             THEN Stored(1, RetryWindow)
                             ELSE Unset]

\* No delivery of a webhook.
IdleWebhook ==
    /\ deliveries = <<>>
    /\ emails = [e \in Events |-> 0]
    /\ STRIPE_WEBHOOK_SECRET = FALSE
    /\ RESEND_API_KEY = FALSE

IdlePay == IdleDownloads /\ IdleWebhook /\ IdleBuild

\* Nothing of the application beyond the engine is in use.
IdleApp == IdleTruncate /\ IdleScan /\ IdleStore /\ IdlePay


IdleCalls ==
    /\ calls = <<>>
    /\ frames = <<>>

\* extract_keywords_from_text(text)
ExtractKeywords ==
    /\ extract_pc = "call"
    /\ found' = scan_keywords(taxonomy, text)
    /\ extract_pc' = "done"
    /\ UNCHANGED <<text, match_vars, format_vars, taxonomy, call_vars, app_vars>>

\* calculate_match(resume_keywords, job_keywords)
CalculateMatch ==
    /\ match_pc = "call"
    /\ IF Raises(resume_keywords, job_keywords)
       THEN /\ match_pc' = "raised"
            /\ UNCHANGED results
       ELSE /\ results' = calculate_match(resume_keywords, job_keywords)
            /\ match_pc' = "done"
    /\ UNCHANGED <<resume_keywords, job_keywords, extract_vars, format_vars,
                   taxonomy, call_vars, app_vars>>

\* analyze_ats_formatting(resume_text)
AnalyzeFormatting ==
    /\ format_pc = "call"
    /\ report' = check_formatting(taxonomy["action_verbs"], resume_text)
    /\ format_pc' = "done"
    /\ UNCHANGED <<resume_text, extract_vars, match_vars, taxonomy, call_vars,
                   app_vars>>

\* A call of the extractor on a text.
Init == Loaded /\ InitExtract /\ IdleMatch /\ IdleFormat /\ IdleCalls /\ IdleApp
Next == ExtractKeywords
Spec == Init /\ [][Next]_vars

\* A call of the scorer on a pair of keyword mappings.
MatchInit ==
    Loaded /\ InitMatch /\ IdleExtract /\ IdleFormat /\ IdleCalls /\ IdleApp
NextMatch == CalculateMatch
SpecMatch == MatchInit /\ [][NextMatch]_vars

\* A call of the formatting checker on a text.
FormatInit ==
    Loaded /\ InitFormat /\ IdleExtract /\ IdleMatch /\ IdleCalls /\ IdleApp
NextFormat == AnalyzeFormatting
SpecFormat == FormatInit /\ [][NextFormat]_vars

\* A call of any of the three functions of the engine.
EngineInit ==
    /\ Loaded
    /\ IdleCalls
    /\ IdleApp
    /\ \/ InitExtract /\ IdleMatch /\ IdleFormat
       \/ InitSparse /\ IdleExtract /\ IdleFormat
       \/ InitFormat /\ IdleExtract /\ IdleMatch
NextEngine == ExtractKeywords \/ CalculateMatch \/ AnalyzeFormatting
SpecEngine == EngineInit /\ [][NextEngine]_vars

\* _smart_truncate_resume(text, max_chars) runs from its call to its return.
SmartTruncate ==
    /\ truncate_pc = "call"
    /\ truncated' = _smart_truncate_resume(long_text, max_chars)
    /\ truncate_pc' = "done"
    /\ UNCHANGED <<long_text, max_chars, engine_vars, scan_vars, store_vars, pay_vars>>

\* A call of _smart_truncate_resume.
IdleEngine == Loaded /\ IdleExtract /\ IdleMatch /\ IdleFormat /\ IdleCalls
TruncateInit == IdleEngine /\ InitTruncate /\ IdleScan /\ IdleStore /\ IdlePay
NextTruncate == SmartTruncate
SpecTruncate == TruncateInit /\ [][NextTruncate]_vars

\* scan_resume returns a response.
Respond(status, message) ==
    /\ scan_response' = [status |-> status, error |-> message]
    /\ scan_pc' = "responded"

\* The response of scan_resume to an exception (lines 281-287).
ServerError == "Something went wrong during the analysis. Please try again."

\* Lines 196-224 of scan_resume: the form is checked and the file saved.
\* When an exception follows the saving, the handler removes the file.
ValidateScan ==
    /\ scan_pc = "validate"
    /\ LET checked == ValidateForm(scan_request)
       IN  /\ scan_locals' =
                  [scan_locals EXCEPT !.job_description = strip(scan_request.job_description),
                                      !.file_path = checked.file_path,
                                      !.file_type = checked.file_type]
           /\ IF checked.status = 0
              THEN /\ scan_pc' = "parse"
                   /\ uploads' = IF checked.saved THEN uploads \cup {checked.file_path}
                                 ELSE uploads
                   /\ UNCHANGED scan_response
              ELSE /\ Respond(checked.status, checked.error)
                   /\ UNCHANGED uploads
    /\ UNCHANGED <<scan_request, scan_calls, engine_vars, truncate_vars, store_vars,
                   pay_vars>>

\* Lines 226-238: the resume is parsed, the uploaded file removed, and an
\* error of the parser returned.
ParseResume ==
    /\ scan_pc = "parse"
    /\ LET parse_result ==
               parse_resume(scan_locals.file_path,
                            IF scan_locals.file_path = NoFile
                            THEN strip(scan_request.resume_text) ELSE <<>>,
                            scan_locals.file_type)
       IN  /\ scan_locals' = [scan_locals EXCEPT !.parse_result = parse_result]
           /\ IF parse_result.error # "None"
              THEN Respond(400, parse_result.error)
              ELSE scan_pc' = "extract" /\ UNCHANGED scan_response
    /\ scan_calls' = Append(scan_calls, "parse_resume")
    /\ uploads' = uploads \ {scan_locals.file_path}
    /\ UNCHANGED <<scan_request, engine_vars, truncate_vars, store_vars,
                   pay_vars>>

\* Lines 240-244: the keywords of the resume and of the job description.
ExtractOfScan ==
    /\ scan_pc = "extract"
    /\ scan_locals' =
          [scan_locals EXCEPT
              !.resume_keywords = extract_keywords_from_text(scan_locals.parse_result.text),
              !.job_keywords = extract_keywords_from_text(scan_locals.job_description)]
    /\ scan_calls' = scan_calls \o <<"extract_keywords_from_text", "extract_keywords_from_text">>
    /\ scan_pc' = "match"
    /\ UNCHANGED <<scan_request, scan_response, uploads, engine_vars, truncate_vars,
                   store_vars, pay_vars>>

\* Lines 246-250: the match and the formatting report.
MatchOfScan ==
    /\ scan_pc = "match"
    /\ IF Raises(scan_locals.resume_keywords, scan_locals.job_keywords)
       THEN /\ Respond(500, ServerError)
            /\ scan_calls' = Append(scan_calls, "calculate_match")
            /\ UNCHANGED scan_locals
       ELSE /\ scan_locals' =
                  [scan_locals EXCEPT
                      !.match_results = calculate_match(scan_locals.resume_keywords,
                                                        scan_locals.job_keywords),
                      !.ats_check = analyze_ats_formatting(scan_locals.parse_result.text)]
            /\ scan_calls' = scan_calls \o <<"calculate_match", "analyze_ats_formatting">>
            /\ scan_pc' = "suggest"
            /\ UNCHANGED scan_response
    /\ UNCHANGED <<scan_request, uploads, engine_vars, truncate_vars, store_vars,
                   pay_vars>>

\* Lines 252-257: the suggestions of the language model, or its fallback.
SuggestOfScan ==
    /\ scan_pc = "suggest"
    /\ scan_locals' = [scan_locals EXCEPT !.ai_suggestions = "suggestions"]
    /\ scan_calls' = Append(scan_calls, "get_ai_suggestions")
    /\ scan_pc' = "count"
    /\ UNCHANGED <<scan_request, scan_response, uploads, engine_vars, truncate_vars,
                   store_vars, pay_vars>>

\* The calls of Redis in _increment_scan_count, and 0 for none: the call
\* that raises.
RedisCalls == 0..3

\* What a step of _increment_scan_count leaves alone.
CountStepUnchanged ==
    UNCHANGED <<scan_request, scan_response, uploads, _redis_client, engine_vars,
                truncate_vars, pay_vars>>

\* Line 260 of scan_resume and lines 110-112 of _increment_scan_count, with a
\* Redis client: the count of Redis goes up and is kept in `count`, unless
\* the call raises.
CountScan ==
    /\ scan_pc = "count"
    /\ _redis_client
    /\ \E raises \in BOOLEAN :
          IF raises
          THEN /\ scan_pc' = "fallback"
               /\ UNCHANGED <<redis, scan_locals>>
          ELSE /\ redis' = Incr(redis, _REDIS_KEY)
               /\ scan_locals' = [scan_locals EXCEPT !.count = GetInt(redis', _REDIS_KEY)]
               /\ scan_pc' = "count hour"
    /\ scan_calls' = Append(scan_calls, "_increment_scan_count")
    /\ UNCHANGED _fallback_count
    /\ CountStepUnchanged

\* Lines 114-115: the key of the hour the clock shows goes up, unless the
\* call raises.
CountHour ==
    /\ scan_pc = "count hour"
    /\ \E hour \in Hours, raises \in BOOLEAN :
          /\ scan_locals' = [scan_locals EXCEPT !.hour = hour]
          /\ IF raises
             THEN scan_pc' = "fallback" /\ UNCHANGED redis
             ELSE scan_pc' = "expire hour" /\ redis' = Incr(redis, hour_key(hour))
    /\ UNCHANGED <<scan_calls, _fallback_count>>
    /\ CountStepUnchanged

\* Lines 116-117: the key of the hour lives two hours, and `count` is
\* returned, unless the call raises.
ExpireHour ==
    /\ scan_pc = "expire hour"
    /\ \E raises \in BOOLEAN :
          IF raises
          THEN scan_pc' = "fallback" /\ UNCHANGED redis
          ELSE /\ scan_pc' = "respond"
               /\ redis' = Expire(redis, hour_key(scan_locals.hour), HourKeyLife)
    /\ UNCHANGED <<scan_calls, scan_locals, _fallback_count>>
    /\ CountStepUnchanged

\* Lines 120-123, which follow a call that raised (lines 118-119) or, on line
\* 260 of scan_resume, the lack of a client: the count in memory goes up
\* under the lock and is returned.
FallbackCount ==
    /\ scan_pc = "fallback" \/ (scan_pc = "count" /\ ~_redis_client)
    /\ _fallback_count' = _fallback_count + 1
    /\ scan_locals' = [scan_locals EXCEPT !.count = _fallback_count']
    /\ scan_calls' = IF scan_pc = "count"
                     THEN Append(scan_calls, "_increment_scan_count") ELSE scan_calls
    /\ scan_pc' = "respond"
    /\ UNCHANGED redis
    /\ CountStepUnchanged

\* Lines 262-279: the response with the results.
RespondScan ==
    /\ scan_pc = "respond"
    /\ Respond(200, "None")
    /\ UNCHANGED <<scan_request, scan_locals, scan_calls, uploads, engine_vars,
                   truncate_vars, store_vars, pay_vars>>

\* A request to /api/scan.
ScanInit == IdleEngine /\ IdleTruncate /\ InitScan /\ IdlePay
NextScan ==
    \/ ValidateScan
    \/ ParseResume
    \/ ExtractOfScan
    \/ MatchOfScan
    \/ SuggestOfScan
    \/ CountScan
    \/ CountHour
    \/ ExpireHour
    \/ FallbackCount
    \/ RespondScan
SpecScan == ScanInit /\ [][NextScan]_vars

\* token = uuid.uuid4().hex and the storing of the polished CV (lines 588-616
\* and 659-685): a token no request has had is given out, and the data are
\* stored under it for two hours; without a client, or when the call raises,
\* the response tells the client to keep the data.
IssueToken(token, raises) ==
    /\ generated[token] = "none"
    /\ IF _redis_client /\ ~raises
       THEN /\ redis' = SetEx(redis, CvKey(token), TwoHours, 1)
            /\ generated' = [generated EXCEPT ![token] = "server"]
       ELSE /\ generated' = [generated EXCEPT ![token] = "client"]
            /\ UNCHANGED redis
    /\ UNCHANGED <<_redis_client, _fallback_count, engine_vars, truncate_vars, scan_vars,
                   download_vars, webhook_vars>>

\* build_generate (lines 557-620), when it answers 200: the body has a target
\* job description and a full name (lines 572-580) and polish_cv_sections
\* returns.  Its other responses, 400 and 500, change nothing.
BuildGenerate ==
    \E cv_data \in GenerateBodies, token \in Tokens, raises \in BOOLEAN :
        /\ cv_data # NoBody
        /\ strip(cv_data.target_job_description) # <<>>
        /\ strip(cv_data.full_name) # <<>>
        /\ IssueToken(token, raises)

\* build_generate_from_scan (lines 640-689), when it answers 200: the body
\* has a resume text and a job description (lines 655-664) and
\* extract_and_polish returns a CV.  Its other responses change nothing.
BuildGenerateFromScan ==
    \E data \in GenerateFromScanBodies, token \in Tokens, raises \in BOOLEAN :
        /\ data # NoScanBody
        /\ strip(data.resume_text) # <<>>
        /\ strip(data.job_description) # <<>>
        /\ IssueToken(token, raises)

\* What a step of build_download that does not write to Redis leaves alone.
DownloadStepUnchanged ==
    UNCHANGED <<served, engine_vars, truncate_vars, scan_vars, store_vars, webhook_vars,
                build_vars>>

\* The invocation that returns a response.
Return(call, status, message) ==
    [call EXCEPT !.pc = "done", !.response = [status |-> status, error |-> message]]

\* Lines 771-784 of build_download, for invocation i: the parameters of the
\* request, which is one of `requests` and whose token is one a generate
\* route has given out.  The invocations are numbered in the order of their
\* requests.
BeginDownload(i, requests) ==
    /\ downloads[i].pc = "idle"
    /\ IF i = 1 THEN TRUE ELSE downloads[i - 1].pc # "idle"
    /\ \E request \in requests :
          /\ generated[request.token] # "none"
          /\ LET began == [downloads[i] EXCEPT !.request = request]
             IN  downloads' = [downloads EXCEPT ![i] =
                    IF strip(request.session_id) = <<>>
                    THEN Return(began, 400, "Missing payment session.")
                    ELSE [began EXCEPT !.pc = "verify"]]
    /\ DownloadStepUnchanged

\* Lines 787-796: Stripe is asked about the payment.
VerifyDownload(i) ==
    /\ downloads[i].pc = "verify"
    /\ LET call == downloads[i]
           payment == verify_checkout_payment(strip(call.request.session_id),
                                              call.request.token)
       IN  downloads' = [downloads EXCEPT ![i] =
              IF ~payment.verified THEN Return(call, 403, payment.reason)
              ELSE IF ~_redis_client THEN [call EXCEPT !.pc = "serve"]
              ELSE [call EXCEPT !.pc = "get cv"]]
    /\ DownloadStepUnchanged

\* Lines 797-801: the data of the CV are read from Redis, unless the call
\* raises, which the handler of line 810 catches.
GetCvOfDownload(i) ==
    /\ downloads[i].pc = "get cv"
    /\ \E raises \in BOOLEAN :
          LET call == [downloads[i] EXCEPT !.touched = {CvKey(downloads[i].request.token)}]
              stored == redis[CvKey(call.request.token)].exists
          IN  downloads' = [downloads EXCEPT ![i] =
                 IF raises \/ ~stored THEN [call EXCEPT !.pc = "serve"]
                 ELSE [call EXCEPT !.cv_data = "redis", !.pc = "get count"]]
    /\ DownloadStepUnchanged

\* Lines 804-807: the count of the downloads is read and compared with the
\* limit, unless the call raises.
GetDownloads(i) ==
    /\ downloads[i].pc = "get count"
    /\ \E raises \in BOOLEAN :
          LET call == [downloads[i] EXCEPT
                          !.touched = @ \cup {DownloadsKey(downloads[i].request.token)}]
              dl_count == GetInt(redis, DownloadsKey(call.request.token))
          IN  downloads' = [downloads EXCEPT ![i] =
                 IF raises THEN [call EXCEPT !.pc = "serve"]
                 ELSE IF dl_count >= MaxDownloadsOfCv
                 THEN Return(call, 403, "Download limit reached (3 downloads max).")
                 ELSE [call EXCEPT !.pc = "incr"]]
    /\ DownloadStepUnchanged

\* Line 808: the download is counted, unless the call raises.
IncrDownloads(i) ==
    /\ downloads[i].pc = "incr"
    /\ \E raised \in BOOLEAN :
          /\ redis' = IF raised THEN redis
                      ELSE Incr(redis, DownloadsKey(downloads[i].request.token))
          /\ downloads' = [downloads EXCEPT ![i].pc = IF raised THEN "serve" ELSE "expire"]
    /\ UNCHANGED <<served, _redis_client, _fallback_count, engine_vars, truncate_vars,
                   scan_vars, webhook_vars, build_vars>>

\* Line 809: the count lives two hours more, unless the call raises.
ExpireDownloads(i) ==
    /\ downloads[i].pc = "expire"
    /\ \E raised \in BOOLEAN :
          redis' = IF raised THEN redis
                   ELSE Expire(redis, DownloadsKey(downloads[i].request.token), TwoHours)
    /\ downloads' = [downloads EXCEPT ![i].pc = "serve"]
    /\ UNCHANGED <<served, _redis_client, _fallback_count, engine_vars, truncate_vars,
                   scan_vars, webhook_vars, build_vars>>

\* Lines 813-844: the data of the client when Redis gave none, and the file
\* made of the data.  When generate_cv_pdf or the reading of the name raises,
\* as they do on data that are not those of a CV, the handler of line 842
\* answers 500.
ServeDownload(i) ==
    /\ downloads[i].pc = "serve"
    /\ \E raises \in BOOLEAN :
          LET call == downloads[i]
              cv_data == IF call.cv_data = "None" /\ call.request.client_cv_data # "None"
                         THEN call.request.client_cv_data ELSE call.cv_data
              status == IF cv_data = "None" THEN 404
                        ELSE IF raises \/ cv_data = "list" THEN 500
                        ELSE 200
              message == IF status = 404
                         THEN "CV data not found. It may have expired. Please regenerate."
                         ELSE IF status = 500 THEN "Failed to generate PDF."
                         ELSE "None"
          IN  /\ downloads' = [downloads EXCEPT
                                  ![i] = Return([call EXCEPT !.cv_data = cv_data],
                                                status, message)]
              /\ served' = IF status = 200
                           THEN [served EXCEPT ![call.request.token] = @ + 1]
                           ELSE served
    /\ UNCHANGED <<engine_vars, truncate_vars, scan_vars, store_vars, webhook_vars,
                   build_vars>>

\* Requests for downloads with a verified payment, handled at the same time
\* as each other and as the requests that generate a CV.
DownloadInit == IdleEngine /\ IdleTruncate /\ IdleScan /\ InitDownloads /\ IdleWebhook
NextDownload ==
    \/ BuildGenerate
    \/ BuildGenerateFromScan
    \/ \E i \in 1..MaxDownloads :
          \/ BeginDownload(i, VerifiedRequests)
          \/ VerifyDownload(i)
          \/ GetCvOfDownload(i)
          \/ GetDownloads(i)
          \/ IncrDownloads(i)
          \/ ExpireDownloads(i)
          \/ ServeDownload(i)
SpecDownload == DownloadInit /\ [][NextDownload]_vars

\* Two requests for downloads, with a payment or without, handled at the same
\* time as each other and as the requests that generate a CV.
PaymentInit == IdleEngine /\ IdleTruncate /\ IdleScan /\ InitPayment /\ IdleWebhook
NextPayment ==
    \/ BuildGenerate
    \/ BuildGenerateFromScan
    \/ \E i \in {1, 2} :
          \/ BeginDownload(i, DownloadRequests)
          \/ VerifyDownload(i)
          \/ GetCvOfDownload(i)
          \/ GetDownloads(i)
          \/ IncrDownloads(i)
          \/ ExpireDownloads(i)
          \/ ServeDownload(i)
SpecPayment == PaymentInit /\ [][NextPayment]_vars

\* What a step of build_webhook or of _send_cv_email leaves alone.
EmailStepUnchanged ==
    UNCHANGED <<STRIPE_WEBHOOK_SECRET, RESEND_API_KEY, _redis_client, _fallback_count,
                engine_vars, truncate_vars, scan_vars, download_vars, build_vars>>

\* Lines 935-950 of build_webhook, for delivery i: the signature and the type
\* of the event.  Stripe signs the event of a checkout whose token a generate
\* route has given out.  The deliveries are numbered in the order of their
\* requests.
ReceiveWebhook(i) ==
    /\ deliveries[i].pc = "idle"
    /\ IF i = 1 THEN TRUE ELSE deliveries[i - 1].pc # "idle"
    /\ \E request \in WebhookRequests :
          LET event == verify_webhook_signature(STRIPE_WEBHOOK_SECRET, request.payload,
                                                request.sig_header)
              marks == event # NoEvent /\ event.type = "checkout.session.completed"
                           /\ event.cv_token # "" /\ _redis_client
          IN  /\ (request.sig_header = "valid" /\ request.payload.cv_token # "")
                    => generated[request.payload.cv_token] # "none"
              /\ deliveries' = [deliveries EXCEPT ![i] =
                    [@ EXCEPT !.request = request,
                              !.pc = IF marks THEN "mark paid" ELSE "done",
                              !.status = IF event = NoEvent THEN 400
                                         ELSE IF marks THEN 0 ELSE 200]]
    /\ UNCHANGED <<redis, emails>>
    /\ EmailStepUnchanged

\* The event of a delivery that has reached _send_cv_email.
EventOf(i) == deliveries[i].request.payload

\* Where build_webhook goes after lines 951-957: to _send_cv_email when the
\* event asks for an email (line 960), which returns at line 854 without a
\* client, or to its response.
AfterMark(delivery) ==
    IF delivery.request.payload.delivery_email # ""
    THEN [delivery EXCEPT !.pc = "set dedup"]
    ELSE [delivery EXCEPT !.pc = "done", !.status = 200]

\* Lines 952-953: the token is marked as paid for two hours, unless the call
\* raises, which line 956 catches.
MarkPaid(i) ==
    /\ deliveries[i].pc = "mark paid"
    /\ \E raises \in BOOLEAN :
          LET delivery == [deliveries[i] EXCEPT
                              !.touched = {PaidKey(EventOf(i).cv_token)}]
          IN  IF raises
              THEN /\ deliveries' = [deliveries EXCEPT ![i] = AfterMark(delivery)]
                   /\ UNCHANGED redis
              ELSE /\ deliveries' = [deliveries EXCEPT
                                         ![i] = [delivery EXCEPT !.pc = "extend cv"]]
                   /\ redis' = SetEx(redis, PaidKey(EventOf(i).cv_token), TwoHours, 1)
    /\ UNCHANGED emails
    /\ EmailStepUnchanged

\* Line 955: the data of the CV live 72 hours more, unless the call raises.
ExtendCv(i) ==
    /\ deliveries[i].pc = "extend cv"
    /\ \E raises \in BOOLEAN :
          redis' = IF raises THEN redis
                   ELSE Expire(redis, CvKey(EventOf(i).cv_token), RetryWindow)
    /\ deliveries' = [deliveries EXCEPT
                          ![i] = AfterMark([@ EXCEPT
                                    !.touched = @ \cup {CvKey(EventOf(i).cv_token)}])]
    /\ UNCHANGED emails
    /\ EmailStepUnchanged

\* Lines 858-861 of _send_cv_email: the dedup key is set if it is not there;
\* the delivery ends when it was there, and goes to the exception handler
\* when the call raises.
SetDedup(i) ==
    /\ deliveries[i].pc = "set dedup"
    /\ \E raises \in BOOLEAN :
          LET set == SetNx(redis, DedupKey(EventOf(i).id), RetryWindow, 1)
          IN  IF raises
              THEN /\ deliveries' = [deliveries EXCEPT ![i].pc = "handle",
                                                       ![i].raised = TRUE]
                   /\ UNCHANGED redis
              ELSE /\ redis' = set.store
                   /\ deliveries' = [deliveries EXCEPT ![i] =
                         [@ EXCEPT !.acquired = set.was_set,
                                   !.touched = @ \cup {DedupKey(EventOf(i).id)},
                                   !.pc = IF set.was_set THEN "get cv" ELSE "done",
                                   !.status = IF set.was_set THEN 0 ELSE 200]]
    /\ UNCHANGED emails
    /\ EmailStepUnchanged

\* Lines 863-873: the data of the CV are read and the key of the email service
\* looked up; without either the dedup key is to be released.
GetCvOfEmail(i) ==
    /\ deliveries[i].pc = "get cv"
    /\ \E raises \in BOOLEAN :
          LET cv_data_raw == redis[CvKey(EventOf(i).cv_token)].exists
          IN  deliveries' = [deliveries EXCEPT ![i] =
                IF raises THEN [@ EXCEPT !.pc = "handle", !.raised = TRUE]
                ELSE [@ EXCEPT !.saw_data = cv_data_raw,
                               !.pc = IF cv_data_raw /\ RESEND_API_KEY THEN "send"
                                      ELSE "release"]]
    /\ UNCHANGED <<redis, emails>>
    /\ EmailStepUnchanged

\* Lines 866-867 and 872-873: the dedup key is deleted and the delivery ends.
ReleaseDedup(i) ==
    /\ deliveries[i].pc = "release"
    /\ \E raises \in BOOLEAN :
          IF raises
          THEN /\ deliveries' = [deliveries EXCEPT ![i].pc = "handle", ![i].raised = TRUE]
               /\ UNCHANGED redis
          ELSE /\ redis' = Delete(redis, DedupKey(EventOf(i).id))
               /\ deliveries' = [deliveries EXCEPT ![i].pc = "done", ![i].status = 200]
    /\ UNCHANGED emails
    /\ EmailStepUnchanged

\* Lines 875-918: the PDF is made and the email sent, unless either raises.
SendEmail(i) ==
    /\ deliveries[i].pc = "send"
    /\ \E raises \in BOOLEAN :
          IF raises
          THEN /\ deliveries' = [deliveries EXCEPT ![i].pc = "handle", ![i].raised = TRUE]
               /\ UNCHANGED emails
          ELSE /\ emails' = [emails EXCEPT ![EventOf(i).id] = @ + 1]
               /\ deliveries' = [deliveries EXCEPT ![i].pc = "done", ![i].sent = TRUE,
                                                   ![i].status = 200]
    /\ UNCHANGED redis
    /\ EmailStepUnchanged

\* Lines 920-927: the exception handler deletes the dedup key of the event,
\* unless the delete raises, and the delivery ends.
HandleEmailError(i) ==
    /\ deliveries[i].pc = "handle"
    /\ \E raises \in BOOLEAN :
          /\ redis' = IF raises THEN redis ELSE Delete(redis, DedupKey(EventOf(i).id))
          /\ deliveries' = [deliveries EXCEPT ![i].pc = "done", ![i].status = 200,
                                              ![i].release_raised = raises]
    /\ UNCHANGED emails
    /\ EmailStepUnchanged

\* Deliveries of the webhook, handled at the same time.
WebhookInit == IdleEngine /\ IdleTruncate /\ IdleScan /\ IdleDownloads /\ InitWebhook
NextWebhook ==
    \/ BuildGenerate
    \/ BuildGenerateFromScan
    \/ \E i \in 1..MaxDeliveries :
          \/ ReceiveWebhook(i)
          \/ MarkPaid(i)
          \/ ExtendCv(i)
          \/ SetDedup(i)
          \/ GetCvOfEmail(i)
          \/ ReleaseDedup(i)
          \/ SendEmail(i)
          \/ HandleEmailError(i)
SpecWebhook == WebhookInit /\ [][NextWebhook]_vars

\* A call of the scorer on a resume that other resumes include.
GrowInit ==
    Loaded /\ InitGrow /\ IdleExtract /\ IdleFormat /\ IdleCalls /\ IdleApp
SpecGrow == GrowInit /\ [][NextMatch]_vars

(***************************************************************************)
(* Invocations under way at the same time                                   *)
(***************************************************************************)

\* The most invocations under way at once.
MaxCalls == 2

\* The invocations clients make: a function of the engine and its arguments.
Requests ==
    << [fn   |-> "extract_keywords_from_text",
        args |-> <<Join(<<<<"l", "e", "d">>, <<"p", "y", "t", "h", "o", "n">>>>)>>],
       [fn   |-> "extract_keywords_from_text",
        args |-> <<Join(<<<<"A", "z", "u", "r", "e">>, <<"c", "o", "l", "l", "a", "b", "o", "r", "a", "t", "e", "d">>>>)>>],
       [fn   |-> "calculate_match",
        args |-> <<[technical_skills |-> Prefix(TechPool, 2),
                    soft_skills      |-> Prefix(SoftPool, 1),
                    action_verbs     |-> Prefix(VerbPool, 3)],
                   [technical_skills |-> Prefix(TechPool, 3),
                    certifications   |-> Prefix(CertPool, 1)]>>],
       [fn   |-> "analyze_ats_formatting",
        args |-> <<Join(<<<<"l", "e", "d">>, <<"a", "@", "b", ".", "c", "o">>>>)>>] >>

\* What a request returns when its function runs alone on its arguments.
Alone(request) ==
    CASE request.fn = "extract_keywords_from_text" ->
            extract_keywords_from_text(request.args[1])
      [] request.fn = "calculate_match" ->
            calculate_match(request.args[1], request.args[2])
      [] request.fn = "analyze_ats_formatting" ->
            analyze_ats_formatting(request.args[1])

\* The passes of the loop an invocation makes: one for each category; the
\* formatting checker goes through ACTION_VERBS once.
Passes(fn) == IF fn = "analyze_ats_formatting" THEN 1 ELSE Len(CategoryOrder)

\* The locals of an invocation before it has assigned any: `found` of the
\* extractor (lines 127-133), `results` of the scorer (lines 190-196) and
\* what the formatting checker builds.
NewFrame == [found |-> NoneFound, results |-> EmptyResults, report |-> NoReport]

\* Invocations that all assign their locals in one place, as they would to
\* names of the module.
SharedFrame(i) == 1

\* The frame that holds the locals of invocation i: Python makes a new one
\* for every call.
FrameOf(i) == i

\* Invocations of the requests chosen; the order among them does not
\* matter, so they are taken in the order of Requests.  Each invocation
\* carries, for comparison, what its function returns when it runs alone; no
\* step reads or changes it.
InitCalls ==
    /\ \E choice \in [1..MaxCalls -> DOMAIN Requests] :
          /\ \A i \in 1..(MaxCalls - 1) : choice[i] <= choice[i + 1]
          /\ calls = [i \in 1..MaxCalls |->
                        [request |-> choice[i],
                         fn      |-> Requests[choice[i]].fn,
                         args    |-> Requests[choice[i]].args,
                         pc      |-> "call",
                         pass    |-> 0,
                         result  |-> <<>>,
                         alone   |-> Alone(Requests[choice[i]])]]
    /\ frames = [i \in 1..MaxCalls |-> NewFrame]

\* Invocation i enters its function and assigns its locals.
StartCall(i) ==
    /\ calls[i].pc = "call"
    /\ frames' = [frames EXCEPT ![FrameOf(i)] = NewFrame]
    /\ calls' = [calls EXCEPT ![i].pc = "loop", ![i].pass = 1]
    /\ UNCHANGED <<extract_vars, match_vars, format_vars, taxonomy, app_vars>>

\* The invocation's position after a pass of its loop.
AfterPass(call) ==
    IF call.pass < Passes(call.fn)
    THEN [call EXCEPT !.pass = @ + 1]
    ELSE [call EXCEPT !.pc = "return"]

\* One of the loops of lines 136-154 of the extractor: a taxonomy set is
\* scanned into found.
ScanCategory(i) ==
    /\ calls[i].pc = "loop"
    /\ calls[i].fn = "extract_keywords_from_text"
    /\ LET category == CategoryOrder[calls[i].pass]
       IN  frames' = [frames EXCEPT ![FrameOf(i)].found[category] =
                        scan_keywords(taxonomy, calls[i].args[1])[category]]
    /\ calls' = [calls EXCEPT ![i] = AfterPass(@)]
    /\ UNCHANGED <<extract_vars, match_vars, format_vars, taxonomy, app_vars>>

\* A pass of the loop of lines 210-274 of the scorer.
ScoreCategory(i) ==
    /\ calls[i].pc = "loop"
    /\ calls[i].fn = "calculate_match"
    /\ frames' = [frames EXCEPT ![FrameOf(i)].results =
                    loop_body(@, CategoryOrder[calls[i].pass],
                              calls[i].args[1], calls[i].args[2])]
    /\ calls' = [calls EXCEPT ![i] = AfterPass(@)]
    /\ UNCHANGED <<extract_vars, match_vars, format_vars, taxonomy, app_vars>>

\* The checks of the formatting checker (lines 309-374).
CheckFormatting(i) ==
    /\ calls[i].pc = "loop"
    /\ calls[i].fn = "analyze_ats_formatting"
    /\ frames' = [frames EXCEPT ![FrameOf(i)].report =
                    check_formatting(taxonomy["action_verbs"], calls[i].args[1])]
    /\ calls' = [calls EXCEPT ![i] = AfterPass(@)]
    /\ UNCHANGED <<extract_vars, match_vars, format_vars, taxonomy, app_vars>>

\* What an invocation returns, from its locals.
ReturnValue(call, frame) ==
    CASE call.fn = "extract_keywords_from_text" -> frame.found
      [] call.fn = "calculate_match" -> finish_match(frame.results, call.args[2])
      [] call.fn = "analyze_ats_formatting" -> frame.report

\* Invocation i returns.
ReturnCall(i) ==
    /\ calls[i].pc = "return"
    /\ calls' = [calls EXCEPT ![i].pc = "done",
                              ![i].result = ReturnValue(calls[i], frames[FrameOf(i)])]
    /\ UNCHANGED <<extract_vars, match_vars, format_vars, taxonomy, frames,
                   app_vars>>

\* Invocations of the three functions, their steps interleaved in any order.
ConcurrentInit ==
    Loaded /\ IdleExtract /\ IdleMatch /\ IdleFormat /\ InitCalls /\ IdleApp
NextConcurrent ==
    \E i \in 1..MaxCalls :
        \/ StartCall(i)
        \/ ScanCategory(i)
        \/ ScoreCategory(i)
        \/ CheckFormatting(i)
        \/ ReturnCall(i)
SpecConcurrent == ConcurrentInit /\ [][NextConcurrent]_vars

(***************************************************************************)
(* Properties of extract_keywords_from_text                                *)
(***************************************************************************)

\* The call of the extractor, respectively of the scorer, has returned.
Extracted == extract_pc = "done"
Returned == match_pc = "done"

\* The arguments of the scorer, read as the scorer reads them.
JobSet(category) == Get(job_keywords, category)
ResumeSet(category) == Get(resume_keywords, category)

azure == <<"a", "z", "u", "r", "e">>
azur == <<"a", "z", "u", "r">>
MicrosoftAzure == <<"m", "i", "c", "r", "o", "s", "o", "f", "t", " ">> \o azure

\* The text has a word (a run of letters, digits and underscores) that
\* begins with `prefix`, whatever the case of its letters.
HasWordStarting(prefix) ==
    \E p \in DOMAIN text :
        /\ p = 1 \/ ~IsWordChar(text[p - 1])
        /\ p + Len(prefix) - 1 <= Len(text)
        /\ lower(SubSeq(text, p, p + Len(prefix) - 1)) = prefix

\* C3, as stated: the text "microsoft azure" makes the extractor report the
\* technical term "azure", and the text "azur" does not.
C3_AzurNotReported ==
    Extracted =>
        /\ text = MicrosoftAzure => azure \in found.technical_skills
        /\ text = azur => azure \notin found.technical_skills

\* C3, amended: the extractor reports "azure" exactly when some word of the
\* text begins with "azur", the stem of "azure"; so "microsoft azure" and
\* "azur" report it, and "xazure", where it is the tail of a word, does not.
C3_AzureAtWordStart ==
    Extracted => (azure \in found.technical_skills <=> HasWordStarting(azur))

C3_Witness ==
    /\ Extracted
    /\ text = <<"x">> \o azure
    /\ azure \notin found.technical_skills

\* C5: the extractor returns exactly the five category keys, and each term
\* under a key is a term of that category's taxonomy set.
C5_TaxonomyTermsOnly ==
    Extracted =>
        /\ DOMAIN found = {"technical_skills", "soft_skills", "certifications",
                           "education", "action_verbs"}
        /\ found.technical_skills \subseteq TECHNICAL_SKILLS
        /\ found.soft_skills \subseteq SOFT_SKILLS
        /\ found.certifications \subseteq CERTIFICATIONS
        /\ found.education \subseteq EDUCATION_KEYWORDS
        /\ found.action_verbs \subseteq ACTION_VERBS

C5_Witness ==
    /\ Extracted
    /\ found.technical_skills # {}
    /\ found.soft_skills # {}
    /\ found.action_verbs # {}

(***************************************************************************)
(* Properties of calculate_match                                           *)
(***************************************************************************)

Abs(x) == IF x < 0 THEN -x ELSE x

\* The elements of a list, and whether it ascends strictly in the order
\* sorted() puts strings in.
Range(list) == {list[i] : i \in DOMAIN list}
Ascending(list) == \A i \in 1..(Len(list) - 1) : StrLess(list[i], list[i + 1])

\* The list holds exactly the keywords of the set, sorted.
Lists(list, set) == Range(list) = set /\ Ascending(list)

\* The job description has no keywords at all.
JobEmpty == \A c \in Categories : JobSet(c) = {}

\* C1, as stated: when the job description's keyword sets are empty in
\* every category, the overall score returned is 0.
C1_EmptyJobScoresZero ==
    Returned /\ JobEmpty => results.overall_score = 0

\* The job description has keywords in category c and in no other one.
OnlyCategory(c) ==
    /\ JobSet(c) # {}
    /\ \A d \in Categories \ {c} : JobSet(d) = {}

\* C2, as stated: when the job description has keywords in exactly one
\* non-verb category, the overall score is that category's score; it is
\* 66.7 when the category holds three terms of which the resume has two.
C2_OnlyCategoryScore ==
    Returned =>
        \A c \in NonVerbCategories :
            OnlyCategory(c) =>
                /\ results.overall_score = results.category_scores[c].score
                /\ (Cardinality(JobSet(c)) = 3
                        /\ Cardinality(JobSet(c) \cap ResumeSet(c)) = 2)
                    => results.overall_score = 667

\* The three keyword mappings have an entry for the category.
Listed(c) ==
    /\ c \in DOMAIN results.matched_keywords
    /\ c \in DOMAIN results.missing_keywords
    /\ c \in DOMAIN results.extra_keywords

\* matched = job /\ resume, missing = job - resume and extra = resume - job
\* for the category, each list sorted.
SetAlgebra(c) ==
    /\ Listed(c)
    /\ Lists(results.matched_keywords[c], JobSet(c) \cap ResumeSet(c))
    /\ Lists(results.missing_keywords[c], JobSet(c) \ ResumeSet(c))
    /\ Lists(results.extra_keywords[c], ResumeSet(c) \ JobSet(c))

\* C4, as stated: for each of the five categories the returned lists are
\* matched = job /\ resume, missing = job - resume, extra = resume - job,
\* each sorted alphabetically.
C4_SetAlgebraEveryCategory ==
    Returned => \A c \in Categories : SetAlgebra(c)

\* The resume has keywords in a category other than action_verbs in which
\* the job description has none, and the result has no extra list for the
\* category, where the claim has extra = resume - job list them all.
C4_ExtraNotListed ==
    /\ Returned
    /\ \E c \in NonVerbCategories :
          /\ JobSet(c) = {}
          /\ ResumeSet(c) # {}
          /\ c \notin DOMAIN results.extra_keywords

\* The resume has exactly the job's keywords in every non-verb category,
\* none of them empty.
SameKeywords ==
    \A c \in NonVerbCategories : JobSet(c) # {} /\ ResumeSet(c) = JobSet(c)

\* C6: when the resume's keyword set equals the job's in every non-verb
\* category, each non-empty, and the resume has at least 8 action verbs,
\* the overall score is 100.0.
C6_PerfectMatch ==
    Returned /\ SameKeywords /\ Cardinality(ResumeSet("action_verbs")) >= 8
        => results.overall_score = 1000

C6_Witness ==
    /\ Returned
    /\ SameKeywords
    /\ Cardinality(JobSet("technical_skills")) > 8
    /\ Cardinality(ResumeSet("action_verbs")) = 8
    /\ results.overall_score = 1000

\* C7: the action_verbs score is set by the number n of action verbs of
\* the resume alone: 100 for n >= 8, 80 for 5..7, 60 for 3..4, 40 for
\* 1..2, 10 for 0, whatever verbs the job description has.
C7_VerbScale ==
    Returned =>
        LET n == Cardinality(ResumeSet("action_verbs"))
        IN  results.category_scores["action_verbs"].score =
                CASE n >= 8     -> 1000
                  [] n \in 5..7 -> 800
                  [] n \in 3..4 -> 600
                  [] n \in 1..2 -> 400
                  [] n = 0      -> 100

C7_Witness ==
    /\ Returned
    /\ Cardinality(ResumeSet("action_verbs")) = 7
    /\ Cardinality(JobSet("action_verbs")) = 2
    /\ results.category_scores["action_verbs"].score = 800

\* s tenths is the tenth nearest to 100 * (m / t)^0.7, for 0 <= m <= t:
\* ((2s - 1) / 2000)^10 <= (m / t)^7 < ((2s + 1) / 2000)^10.
NearestOnCurve(s, m, t) ==
    IF m = 0 THEN s = 0
    ELSE /\ s \in 1..1000
         /\ BCmp(BMul(BPow10(2 * s - 1), BPow7(t)),
                 BMul(BPow10(2000), BPow7(m))) <= 0
         /\ BCmp(BMul(BPow10(2 * s + 1), BPow7(t)),
                 BMul(BPow10(2000), BPow7(m))) > 0

\* s tenths is a tenth nearest to 100 * m / t.
NearestRatio(s, m, t) == 2 * Abs(s * t - 1000 * m) <= t

\* C8: the technical_skills score is min(100, (matched/total)^0.7 * 100)
\* when the job description has more than 8 technical terms and
\* matched/total * 100 when it has 1 to 8, to one decimal; it is 61.6, not
\* 50.0, for 10 of 20, and 100 when matched = total.
C8_CurveAboveEight ==
    Returned /\ JobSet("technical_skills") # {} =>
        LET t == Cardinality(JobSet("technical_skills"))
            m == Cardinality(JobSet("technical_skills") \cap ResumeSet("technical_skills"))
            s == results.category_scores["technical_skills"].score
        IN  /\ IF t > 8 THEN NearestOnCurve(s, m, t) ELSE NearestRatio(s, m, t)
            /\ (t = 20 /\ m = 10) => s = 616
            /\ m = t => s = 1000

C8_Witness ==
    /\ Returned
    /\ Cardinality(JobSet("technical_skills")) = 20
    /\ Cardinality(JobSet("technical_skills") \cap ResumeSet("technical_skills")) = 10
    /\ results.category_scores["technical_skills"].score = 616

\* The weights the claim C9 gives, in hundredths.
StatedWeight ==
    [technical_skills |-> 40, soft_skills |-> 15, certifications |-> 20,
     education |-> 10, action_verbs |-> 15]

\* C9: the overall score is, to one decimal, the mean of the category
\* scores weighted 0.40, 0.15, 0.20, 0.10 and 0.15, over the categories
\* whose reported total is above 0, of which action_verbs is always one.
C9_WeightedMean ==
    Returned =>
        LET scores == results.category_scores
            Of(c, x) == IF scores[c].total > 0 THEN x ELSE 0
            Sum(f) == Of("technical_skills", f["technical_skills"])
                        + Of("soft_skills", f["soft_skills"])
                        + Of("certifications", f["certifications"])
                        + Of("education", f["education"])
                        + Of("action_verbs", f["action_verbs"])
            weighted == Sum([c \in Categories |-> scores[c].score * StatedWeight[c]])
            weight == Sum(StatedWeight)
        IN  /\ \A c \in Categories : scores[c].weight = StatedWeight[c]
            /\ scores["action_verbs"].total > 0
            /\ 2 * Abs(results.overall_score * weight - weighted) <= weight

C9_Witness ==
    /\ Returned
    /\ results.category_scores["technical_skills"].total > 0
    /\ results.category_scores["technical_skills"].score \in 1..999
    /\ results.category_scores["soft_skills"].total = 0
    /\ results.category_scores["education"].total > 0
    /\ results.category_scores["action_verbs"].score = 600

\* The keywords the job description has in the four non-verb categories,
\* and those of them the resume has.
JobKeywordCount ==
    Cardinality(JobSet("technical_skills")) + Cardinality(JobSet("soft_skills"))
        + Cardinality(JobSet("certifications")) + Cardinality(JobSet("education"))
MatchedKeywordCount ==
    Cardinality(JobSet("technical_skills") \cap ResumeSet("technical_skills"))
        + Cardinality(JobSet("soft_skills") \cap ResumeSet("soft_skills"))
        + Cardinality(JobSet("certifications") \cap ResumeSet("certifications"))
        + Cardinality(JobSet("education") \cap ResumeSet("education"))

\* C10: simple_match_ratio is 100 * matched / job keywords over the four
\* non-verb categories, to one decimal, and 0 when the job has none there;
\* the action verbs have no part in it.
C10_SimpleMatchRatio ==
    Returned =>
        IF JobKeywordCount = 0
        THEN results.simple_match_ratio = 0
        ELSE NearestRatio(results.simple_match_ratio, MatchedKeywordCount,
                          JobKeywordCount)

C10_Witness ==
    /\ Returned
    /\ JobKeywordCount = 3
    /\ MatchedKeywordCount = 2
    /\ JobSet("action_verbs") # {}
    /\ ResumeSet("action_verbs") # {}
    /\ results.simple_match_ratio = 667
    /\ results.overall_score # results.simple_match_ratio

\* The categories that enter the weighted mean, told from the inputs: the
\* action verbs, and those the job description has keywords in.
Required == {c \in Categories : c = "action_verbs" \/ JobSet(c) # {}}

\* The sum of f[c] over the required categories.
RequiredSum(f) ==
    (IF "technical_skills" \in Required THEN f["technical_skills"] ELSE 0)
        + (IF "soft_skills" \in Required THEN f["soft_skills"] ELSE 0)
        + (IF "certifications" \in Required THEN f["certifications"] ELSE 0)
        + (IF "education" \in Required THEN f["education"] ELSE 0)
        + (IF "action_verbs" \in Required THEN f["action_verbs"] ELSE 0)

\* C11: a non-verb category the job description has no keywords in is
\* reported with score 100, matched 0 and total 0, whatever the resume has
\* in it, and has no part in the overall score: that is the weighted mean
\* of the other categories' scores.
C11_AbsentRequirement ==
    Returned =>
        /\ \A c \in NonVerbCategories :
                JobSet(c) = {} =>
                    /\ results.category_scores[c].score = 1000
                    /\ results.category_scores[c].matched = 0
                    /\ results.category_scores[c].total = 0
        /\ 2 * Abs(results.overall_score * RequiredSum(StatedWeight)
                   - RequiredSum([c \in Categories |->
                        results.category_scores[c].score * StatedWeight[c]]))
                <= RequiredSum(StatedWeight)

C11_Witness ==
    /\ Returned
    /\ JobSet("soft_skills") = {}
    /\ ResumeSet("soft_skills") # {}
    /\ results.category_scores["soft_skills"].score = 1000
    /\ results.category_scores["soft_skills"].total = 0
    /\ JobSet("technical_skills") # {}
    /\ results.category_scores["technical_skills"].score = 0
    /\ results.overall_score < 500

\* C14: every category_scores entry has a score from 0 to 100 and
\* 0 <= matched <= total, and overall_score and simple_match_ratio lie
\* between 0 and 100.
C14_Ranges ==
    Returned =>
        /\ \A c \in Categories :
                /\ results.category_scores[c].score \in 0..1000
                /\ results.category_scores[c].matched >= 0
                /\ results.category_scores[c].matched <= results.category_scores[c].total
        /\ results.overall_score \in 0..1000
        /\ results.simple_match_ratio \in 0..1000

C14_Witness ==
    /\ Returned
    /\ results.category_scores["action_verbs"].matched > 8
    /\ results.category_scores["action_verbs"].total
            = results.category_scores["action_verbs"].matched
    /\ results.category_scores["technical_skills"].total > 8
    /\ results.category_scores["technical_skills"].score = 1000
    /\ results.overall_score = 1000
    /\ results.simple_match_ratio = 1000

(***************************************************************************)
(* Properties of the stem fallback                                         *)
(***************************************************************************)

\* s without its trailing characters that are in chars.
RECURSIVE Trimmed(_, _)
Trimmed(s, chars) ==
    IF s # <<>> /\ s[Len(s)] \in chars
    THEN Trimmed(SubSeq(s, 1, Len(s) - 1), chars)
    ELSE s

\* The stem of a term as C12 gives it: the trailing e, s, i, o, n, d
\* stripped, then the trailing a, t, then the trailing i, n, g.
StatedStem(term) ==
    Trimmed(Trimmed(Trimmed(term, {"e", "s", "i", "o", "n", "d"}), {"a", "t"}),
            {"i", "n", "g"})

\* The text has a letter, digit or underscore at position p.
InWord(p) == p \in DOMAIN text /\ text[p] \in WordChar

\* A word begins or ends between positions p - 1 and p of the text.
WordEdge(p) == InWord(p - 1) # InWord(p)

\* `phrase` stands at position p of the text, whatever the case.
Stands(phrase, p) ==
    /\ p + Len(phrase) - 1 <= Len(text)
    /\ lower(SubSeq(text, p, p + Len(phrase) - 1)) = phrase

\* The term stands in the text as a whole word or phrase.
WholeWord(term) ==
    \E p \in DOMAIN text :
        WordEdge(p) /\ Stands(term, p) /\ WordEdge(p + Len(term))

\* A word of the text starts with the stem: the stem stands at a word edge
\* and runs on into the rest of a word.
WordStartsWith(stem) ==
    \E p \in DOMAIN text :
        /\ WordEdge(p)
        /\ Stands(stem, p)
        /\ stem[Len(stem)] \in WordChar \/ InWord(p + Len(stem))

collaborated == <<"c", "o", "l", "l", "a", "b", "o", "r", "a", "t", "e", "d">>
collaboration == <<"c", "o", "l", "l", "a", "b", "o", "r", "a", "t", "i", "o", "n">>

\* C12: a taxonomy term is reported exactly when it stands in the text as
\* a whole word or phrase, or its stem has at least 4 characters and a
\* word of the text starts with the stem; a text with the word
\* "collaborated" yields the soft skill "collaboration".
C12_WholeOrStem ==
    Extracted =>
        /\ \A c \in Categories :
                found[c] = {t \in Taxonomy(c) :
                                \/ WholeWord(t)
                                \/ /\ Len(StatedStem(t)) >= 4
                                   /\ WordStartsWith(StatedStem(t))}
        /\ HasWordStarting(collaborated) => collaboration \in found.soft_skills

C12_Witness ==
    /\ Extracted
    /\ HasWordStarting(collaborated)
    /\ ~WholeWord(collaboration)
    /\ collaboration \in found.soft_skills
    /\ <<"l", "e", "d">> \in found.action_verbs


-----------------------------------------------------------------------------
\* The formatting checker

\* analyze_ats_formatting has returned its report.
Formatted == format_pc = "done"

\* The issues of the report with a given message, and whether there is one.
IssuesSaying(message) ==
    {i \in DOMAIN report.issues : report.issues[i].message = message}
HasIssue(message) == IssuesSaying(message) # {}
IssueType(message) ==
    report.issues[CHOOSE i \in IssuesSaying(message) : TRUE].type

\* C15: for the empty text the report has word_count 0, a warning that the
\* resume is too short, a warning that names the sections Experience,
\* Education and Skills as missing, no section found, and no e-mail address,
\* phone number or LinkedIn reference.
C15_EmptyText ==
    (Formatted /\ resume_text = <<>>) =>
        /\ report.word_count = 0
        /\ HasIssue("Resume seems very short")
        /\ IssueType("Resume seems very short") = "warning"
        /\ HasIssue("Missing standard section headers: Experience, Education, Skills")
        /\ IssueType("Missing standard section headers: Experience, Education, Skills")
              = "warning"
        /\ report.sections_found = <<>>
        /\ report.has_contact_info =
              [email |-> FALSE, phone |-> FALSE, linkedin |-> FALSE]

\* The checker has returned its report on the empty text.
C15_Witness ==
    /\ Formatted
    /\ resume_text = <<>>
    /\ report.word_count = 0
    /\ Len(report.issues) = 4

\* The number of words of the text under check, counted at the ends of the
\* runs of characters that are not whitespace.
StatedWordCount ==
    Cardinality({p \in DOMAIN resume_text :
                    /\ resume_text[p] \notin {" ", "\t", "\n"}
                    /\ p = Len(resume_text) \/ resume_text[p + 1] \in {" ", "\t", "\n"}})

\* C16: the report says the resume is too short, as a warning, exactly when
\* the text has fewer than 150 words, and too long, as an info, exactly when
\* it has more than 1200; it never says both, and at 150 and at 1200 words
\* it says neither.
C16_LengthIssues ==
    Formatted =>
        /\ report.word_count = StatedWordCount
        /\ HasIssue("Resume seems very short") <=> StatedWordCount < 150
        /\ HasIssue("Resume is quite long") <=> StatedWordCount > 1200
        /\ HasIssue("Resume seems very short") =>
              IssueType("Resume seems very short") = "warning"
        /\ HasIssue("Resume is quite long") =>
              IssueType("Resume is quite long") = "info"
        /\ ~(HasIssue("Resume seems very short") /\ HasIssue("Resume is quite long"))
        /\ StatedWordCount \in {150, 1200} =>
              /\ ~HasIssue("Resume seems very short")
              /\ ~HasIssue("Resume is quite long")

\* A report on a text of 1201 words says that the resume is long.
C16_Witness ==
    /\ Formatted
    /\ StatedWordCount = 1201
    /\ HasIssue("Resume is quite long")
    /\ ~HasIssue("Resume seems very short")

\* The issues of the report that are critical.
CriticalIssues == {i \in DOMAIN report.issues : report.issues[i].type = "critical"}

\* Whether a tip is among the tips of the report.
HasTip(tip) == \E i \in DOMAIN report.tips : report.tips[i] = tip

\* The issues the checker raises for something other than contact details:
\* each is known by its message, or, for the missing sections, by its detail.
OtherIssue(issue) ==
    \/ issue.message \in {"Special characters or symbols detected",
                          "Resume seems very short",
                          "Resume is quite long",
                          "Few action verbs detected"}
    \/ issue.detail = "ATS systems look for standard section headers to categorize your information. Make sure you have clearly labeled sections."

\* C17: the report has a critical issue exactly when no e-mail address was
\* found, and that issue is the only one about contact details; a missing
\* phone number or LinkedIn reference adds a tip and no issue.
C17_ContactDetails ==
    Formatted =>
        /\ CriticalIssues # {} <=> ~report.has_contact_info.email
        /\ \A i \in CriticalIssues :
              report.issues[i].message = "No email address detected"
        /\ \A i \in DOMAIN report.issues :
              i \notin CriticalIssues => OtherIssue(report.issues[i])
        /\ HasTip("Consider adding a phone number to your contact information.")
              <=> ~report.has_contact_info.phone
        /\ HasTip("Adding your LinkedIn profile URL can strengthen your application.")
              <=> ~report.has_contact_info.linkedin

\* A report on a text with an e-mail address and neither a phone number nor a
\* LinkedIn reference: no issue is critical and both tips are given.
C17_Witness ==
    /\ Formatted
    /\ report.has_contact_info =
          [email |-> TRUE, phone |-> FALSE, linkedin |-> FALSE]
    /\ CriticalIssues = {}
    /\ HasTip("Consider adding a phone number to your contact information.")
    /\ HasTip("Adding your LinkedIn profile URL can strengthen your application.")

\* The action verbs the extractor reports for the text under check.
VerbsExtracted == extract_keywords_from_text(resume_text)["action_verbs"]

\* C18: the report warns of few action verbs exactly when the extractor
\* reports fewer than 3 action verbs for the same text.
C18_FewActionVerbs ==
    Formatted =>
        /\ HasIssue("Few action verbs detected") <=> Cardinality(VerbsExtracted) < 3
        /\ HasIssue("Few action verbs detected") =>
              IssueType("Few action verbs detected") = "warning"

\* A report without the warning on a text with exactly 3 action verbs, one
\* of them found by its stem.
C18_Witness ==
    /\ Formatted
    /\ Cardinality(VerbsExtracted) = 3
    /\ \E verb \in VerbsExtracted : ~SearchWhole(verb, lower(resume_text))
    /\ ~HasIssue("Few action verbs detected")

-----------------------------------------------------------------------------
\* The taxonomy

\* The categories whose set, as the module holds it, has a term.
CategoriesOf(term) == {category \in Categories : term \in taxonomy[category]}

\* The five sets share no term, and each term is in lower case.
PairwiseDisjoint ==
    \A c, d \in Categories : c # d => taxonomy[c] \cap taxonomy[d] = {}
UpperLetters == {UpperCase[k] : k \in DOMAIN UpperCase}
LowerCaseTerms ==
    \A category \in Categories :
        \A term \in taxonomy[category] :
            \A i \in DOMAIN term : term[i] \notin UpperLetters

\* C13: at every moment the five taxonomy sets are pairwise disjoint sets of
\* lower-case strings, so that every term is in exactly one category, and no
\* step of extract_keywords_from_text, calculate_match or
\* analyze_ats_formatting changes them.
C13_TaxonomyFixed ==
    /\ [](/\ PairwiseDisjoint
          /\ LowerCaseTerms
          /\ \A term \in UNION {taxonomy[c] : c \in Categories} :
                Cardinality(CategoriesOf(term)) = 1)
    /\ [][taxonomy' = taxonomy]_vars

\* The formatting checker has counted three action verbs in a text, and the
\* sets are those the module defines.
C13_Witness ==
    /\ Formatted
    /\ ~HasIssue("Few action verbs detected")
    /\ taxonomy = TaxonomySets
    /\ Cardinality(taxonomy["action_verbs"]) = 32

-----------------------------------------------------------------------------
\* Totality

\* The keys of what calculate_match returns (lines 190-196, 285-296).
ResultKeys ==
    {"overall_score", "category_scores", "matched_keywords", "missing_keywords",
     "extra_keywords", "simple_match_ratio", "total_job_keywords",
     "total_matched", "total_missing"}

\* C19: the extractor returns five empty sets for the empty text, and the
\* scorer never raises an error: for any pair of mappings, with empty sets or
\* with categories left out, it returns a result with every key and a score
\* for every category.
C19_Total ==
    /\ match_pc # "raised"
    /\ Returned =>
          /\ DOMAIN results = ResultKeys
          /\ DOMAIN results.category_scores = Categories
    /\ (Extracted /\ text = <<>>) =>
          /\ DOMAIN found = Categories
          /\ \A category \in Categories : found[category] = {}

\* The scorer has returned for two mappings that both leave categories out,
\* the job's with empty sets only.
C19_Witness ==
    /\ Returned
    /\ "action_verbs" \notin DOMAIN resume_keywords
    /\ "technical_skills" \notin DOMAIN job_keywords
    /\ DOMAIN job_keywords # {}
    /\ \A c \in DOMAIN job_keywords : job_keywords[c] = {}
    /\ DOMAIN results = ResultKeys

-----------------------------------------------------------------------------
\* Invocations under way at the same time

\* The first k categories of the loops.
First(k) == {CategoryOrder[j] : j \in 1..k}

\* The part of a mapping over categories that the first k passes have
\* written.
Written(mapping, k) == [c \in First(k) \cap DOMAIN mapping |-> mapping[c]]

\* The locals an invocation has after k passes of its loop when its
\* function runs alone.
LocalsAlone(call, k) ==
    LET whole == call.alone
    IN  CASE call.fn = "extract_keywords_from_text" ->
                [NewFrame EXCEPT
                    !.found = [c \in Categories |->
                                  IF c \in First(k) THEN whole[c] ELSE {}]]
          [] call.fn = "calculate_match" ->
                [NewFrame EXCEPT
                    !.results =
                        [overall_score    |-> 0,
                         category_scores  |-> Written(whole.category_scores, k),
                         matched_keywords |-> Written(whole.matched_keywords, k),
                         missing_keywords |-> Written(whole.missing_keywords, k),
                         extra_keywords   |-> Written(whole.extra_keywords, k)]]
          [] call.fn = "analyze_ats_formatting" ->
                [NewFrame EXCEPT !.report = IF k = 0 THEN NoReport ELSE whole]
\* The passes an invocation that has started has completed.
PassesDone(call) == IF call.pc = "loop" THEN call.pass - 1 ELSE Passes(call.fn)

\* C20: whatever the interleaving of the invocations under way, an
\* invocation leaves its arguments and the taxonomy as they were, its locals
\* hold what its own passes have computed from its own arguments, and it
\* returns what its function returns when it runs alone on those arguments.
C20_Isolated ==
    /\ taxonomy = TaxonomySets
    /\ \A i \in DOMAIN calls :
          /\ calls[i].args = Requests[calls[i].request].args
          /\ calls[i].pc # "call" =>
                frames[i] = LocalsAlone(calls[i], PassesDone(calls[i]))
          /\ calls[i].pc = "done" =>
                calls[i].result = calls[i].alone

\* The extractor has returned the keywords of one text while another
\* invocation of it, on another text, is in the middle of its loop.
C20_Witness ==
    /\ DOMAIN calls = 1..2
    /\ calls[1].fn = "extract_keywords_from_text"
    /\ calls[2].fn = "extract_keywords_from_text"
    /\ calls[1].request # calls[2].request
    /\ calls[1].pc = "done"
    /\ calls[1].result # NoneFound
    /\ calls[2].pc = "loop"
    /\ calls[2].pass = 3

-----------------------------------------------------------------------------
\* Terms that end in a character that is no word character

\* The term stands in the text under scan as a token of its own: the text
\* begins or a space stands before it, and the text ends or a space follows.
TokenIn(term, scanned) ==
    \E p \in 1..(Len(scanned) - Len(term) + 1) :
        /\ \A k \in DOMAIN term : scanned[p + k - 1] = term[k]
        /\ p = 1 \/ scanned[p - 1] = " "
        /\ p + Len(term) - 1 = Len(scanned) \/ scanned[p + Len(term)] = " "

\* C30: every taxonomy term that stands in the text as a token between
\* spaces is reported in its category, the terms that end in "+", "#" or "."
\* included.
C30_EveryTermDetectable ==
    Extracted =>
        \A category \in Categories :
            \A term \in Taxonomy(category) :
                TokenIn(term, text) => term \in found[category]

-----------------------------------------------------------------------------
\* Resumes that include one another

\* Every category set of the resume scored is part of the set `larger` has.
IncludesResume(larger) ==
    \A c \in Categories : Get(resume_keywords, c) \subseteq Get(larger, c)

\* `larger` has, beyond the resume scored, only keywords of other categories
\* than action_verbs that the job does not list.
OnlyUnlistedMore(larger) ==
    /\ Get(larger, "action_verbs") = Get(resume_keywords, "action_verbs")
    /\ \A c \in Categories :
          (Get(larger, c) \ Get(resume_keywords, c)) \cap Get(job_keywords, c) = {}

\* No score of `more` is below the score of `less`.
NoScoreBelow(more, less) ==
    /\ more.overall_score >= less.overall_score
    /\ more.simple_match_ratio >= less.simple_match_ratio
    /\ \A c \in Categories :
          more.category_scores[c].score >= less.category_scores[c].score

\* C29: against the same job, a resume that includes the resume scored gets
\* no lower category score, overall_score or simple_match_ratio; and one
\* that only adds keywords the job does not list, none of them an action
\* verb, gets the same scores.
C29_Monotone ==
    Returned =>
        \A larger \in GrowResumes :
            IncludesResume(larger) =>
                LET more == calculate_match(larger, job_keywords)
                IN  /\ NoScoreBelow(more, results)
                    /\ OnlyUnlistedMore(larger) => NoScoreBelow(results, more)

\* A resume has been scored that another one includes and outscores overall,
\* and that a third one includes with a keyword the job does not list.
C29_Witness ==
    /\ Returned
    /\ \E larger \in GrowResumes :
          /\ IncludesResume(larger)
          /\ calculate_match(larger, job_keywords).overall_score > results.overall_score
    /\ \E larger \in GrowResumes :
          /\ IncludesResume(larger)
          /\ OnlyUnlistedMore(larger)
          /\ larger # resume_keywords
(***************************************************************************)
(* Truncation of a long resume                                             *)
(***************************************************************************)

\* The heading lines of s: each line where an education or certification
\* heading starts, without the whitespace around it and in lower case.
HeadingLinesOf(s) ==
    { LET stop == CHOOSE q \in p..(Len(s) + 1) :
                      /\ q = Len(s) + 1 \/ s[q] = "\n"
                      /\ \A k \in p..(q - 1) : s[k] # "\n"
      IN  lower(SelectSeq(SubSeq(s, p, stop - 1), LAMBDA c : c \notin Whitespace))
      : p \in HeadingStarts(_EDU_CERT_HEADING_RE, s) }

\* C28: _smart_truncate_resume returns a text of at most max_chars characters
\* unchanged, never returns more than max_chars characters, and keeps every
\* education and certification heading of a longer text in what it returns.
C28_HeadingsKept ==
    truncate_pc = "done" =>
        /\ Len(long_text) <= max_chars => truncated = long_text
        /\ Len(truncated) <= max_chars
        /\ HeadingLinesOf(long_text) \subseteq HeadingLinesOf(truncated)

\* The first two parts of C28 alone.
C28_LengthKept ==
    truncate_pc = "done" =>
        /\ Len(long_text) <= max_chars => truncated = long_text
        /\ Len(truncated) <= max_chars

(***************************************************************************)
(* The scan endpoint                                                       *)
(***************************************************************************)

\* The functions scan_resume has called.
Called == {scan_calls[i] : i \in DOMAIN scan_calls}
TimesCalled(name) == Cardinality({i \in DOMAIN scan_calls : scan_calls[i] = name})

\* C21: wherever the scan endpoint reaches extract_keywords_from_text, the
\* job description has at least 10 words and the text of the resume, pasted or
\* read from an uploaded PDF or DOCX file, has at least 20 words.
C21_LengthsChecked ==
    (scan_pc = "extract" \/ "extract_keywords_from_text" \in Called) =>
        /\ WordCount(scan_locals.job_description) >= MinJobWords
        /\ WordCount(scan_locals.parse_result.text) >= MinResumeWords

\* The requests C27 is about: an empty job description, one of fewer than 10
\* words, or neither a file nor a pasted text.
NoJob == strip(scan_request.job_description) = <<>>
ShortJob == WordCount(scan_request.job_description) < 10
NoResume ==
    /\ scan_request.resume_file = NoFile \/ scan_request.resume_file.filename = <<>>
    /\ strip(scan_request.resume_text) = <<>>

\* Whether a step changes the scan count of Redis, or the one in memory.
CountChanges == redis'[_REDIS_KEY] # redis[_REDIS_KEY]
FallbackChanges == _fallback_count' # _fallback_count

\* C27: a scan request with an empty job description, with one of fewer than
\* 10 words, or without a resume is answered 400 before the parser, the
\* extractor or the language model is called, and no request that is answered
\* otherwise than 200 changes the scan count; a scan that is answered 200 has
\* incremented the count once: it calls _increment_scan_count once, and the
\* call adds one to the count in Redis in its first step, one to the count
\* in memory in its last step when Redis is not there or raised, at least
\* one of the two, and more than one to neither.
C27_RejectedUncounted ==
    /\ [](scan_pc = "responded" =>
            /\ (NoJob \/ ShortJob \/ NoResume) =>
                    scan_response.status = 400 /\ scan_calls = <<>>
            /\ TimesCalled("_increment_scan_count") =
                    IF scan_response.status = 200 THEN 1 ELSE 0)
    /\ [][CountChanges =>
            /\ scan_pc = "count" /\ scan_pc' = "count hour"
            /\ TimesCalled("_increment_scan_count") = 0
            /\ GetInt(redis', _REDIS_KEY) = GetInt(redis, _REDIS_KEY) + 1]_vars
    /\ [][FallbackChanges =>
            /\ scan_pc \in {"count", "fallback"} /\ scan_pc' = "respond"
            /\ _fallback_count' = _fallback_count + 1]_vars
    /\ [][scan_pc' = "count hour" => CountChanges]_vars
    /\ [][scan_pc' = "expire hour" => scan_pc = "count hour"]_vars
    /\ [][scan_pc' = "respond" => scan_pc = "expire hour" \/ FallbackChanges]_vars
    /\ [][scan_pc' = "count" => scan_pc = "suggest"]_vars
    /\ [][scan_pc = "respond" => scan_response'.status = 200]_vars

\* A job description of fewer than 10 words, sent with a pasted resume, has
\* been answered 400.
C27_Witness ==
    /\ scan_pc = "responded"
    /\ scan_response.status = 400
    /\ ~NoJob /\ ShortJob /\ ~NoResume

\* A scan has been answered 200 after its count went to Redis.
C27_Counted ==
    /\ scan_pc = "responded"
    /\ scan_response.status = 200
    /\ GetInt(redis, _REDIS_KEY) > ScanCountBase

(***************************************************************************)
(* The download route                                                      *)
(***************************************************************************)

\* C22: of the requests for the CV of a token whose data are in Redis, made
\* one after the other or at the same time with a verified payment, at most
\* three return the file.
C22_AtMostThree ==
    \A t \in Tokens : redis[CvKey(t)].exists => served[t] <= 3

\* What Stripe says of the session of a request: whether it is paid, and for
\* the token of the URL.
PaidFor(request) ==
    LET session_id == strip(request.session_id)
    IN  /\ session_id \in DOMAIN StripeSessions
        /\ StripeSessions[session_id].payment_status = "paid"
        /\ StripeSessions[session_id].cv_token = request.token

C23_AtMostOnce == \A e \in Events : emails[e] <= 1

\* Delivery i ends in a step.
Ends(i) == deliveries[i].pc # "done" /\ deliveries'[i].pc = "done"

\* The dedup key of the event of delivery i.
KeyOf(i) == DedupKey(EventOf(i).id)

\* An invocation that has set the dedup key, has the data of the CV and the
\* email service, and in which nothing raises, sends the email; and an
\* invocation sets the key when it is not there.
RetrySends ==
    /\ [](\A i \in DOMAIN deliveries :
            (/\ deliveries[i].pc = "done" /\ deliveries[i].acquired
             /\ deliveries[i].saw_data /\ RESEND_API_KEY /\ ~deliveries[i].raised)
                => deliveries[i].sent)
    /\ [][\A i \in DOMAIN deliveries :
            (/\ deliveries[i].pc = "set dedup" /\ ~redis[KeyOf(i)].exists
             /\ deliveries'[i].pc \notin {"set dedup", "handle"})
                => deliveries'[i].acquired /\ deliveries'[i].pc = "get cv"]_vars

\* C24 as stated: when an invocation of _send_cv_email that has set the dedup
\* key ends without sending, the key is absent, and a later delivery of the
\* event that finds the data of the CV and the email service sends the email.
C24_Released ==
    /\ [][\A i \in DOMAIN deliveries :
            (Ends(i) /\ deliveries'[i].acquired /\ ~deliveries'[i].sent)
                => ~redis'[KeyOf(i)].exists]_vars
    /\ RetrySends

\* A delivery of an event has set the dedup key and ended without sending;
\* a later delivery of the event, in which nothing raised, has found the key
\* and ended without sending, with the data of the CV stored and the email
\* service configured; no other delivery holds the key, and no email of the
\* event has been sent.
C24_RetryTurnedAway ==
    \E i, j \in DOMAIN deliveries :
        /\ i < j /\ EventOf(i).id = EventOf(j).id
        /\ deliveries[i].pc = "done" /\ deliveries[i].acquired /\ ~deliveries[i].sent
        /\ deliveries[j].pc = "done" /\ ~deliveries[j].acquired /\ ~deliveries[j].raised
        /\ DedupKey(EventOf(j).id) \in deliveries[j].touched
        /\ redis[CvKey(EventOf(j).cv_token)].exists /\ RESEND_API_KEY
        /\ emails[EventOf(i).id] = 0
        /\ \A k \in DOMAIN deliveries :
              /\ deliveries[k].pc \in {"idle", "done"}
              /\ (deliveries[k].pc = "done" /\ k # i) => ~deliveries[k].acquired

\* Whether a delivery lacks the signature of Stripe: the header is missing or
\* invalid, or the application has no secret to check it with.
Unsigned(request) == ~STRIPE_WEBHOOK_SECRET \/ request.sig_header # "valid"

\* C25: a webhook request without a valid signature, or one sent when no
\* webhook secret is configured, is answered 400 and changes nothing: no key
\* of Redis is set or extended and no email is sent.
C25_UnsignedRejected ==
    /\ [](\A i \in DOMAIN deliveries :
            (deliveries[i].pc # "idle" /\ Unsigned(deliveries[i].request)) =>
                /\ deliveries[i].pc = "done" /\ deliveries[i].status = 400
                /\ deliveries[i].touched = {}
                /\ ~deliveries[i].acquired /\ ~deliveries[i].sent)
    /\ [][\A i \in DOMAIN deliveries :
            (deliveries[i].pc = "idle" /\ deliveries'[i].pc # "idle"
             /\ Unsigned(deliveries'[i].request))
                => redis' = redis /\ emails' = emails]_vars

\* A delivery with an invalid signature has been answered 400 by an
\* application that has a secret, a Redis client and the data of the CV.
C25_Witness ==
    \E i \in DOMAIN deliveries :
        /\ deliveries[i].pc = "done"
        /\ deliveries[i].request.sig_header = "invalid"
        /\ deliveries[i].status = 400
        /\ STRIPE_WEBHOOK_SECRET /\ _redis_client /\ redis[CvKey("t1")].exists

=============================================================================
